---- MODULE Spec2Model ----
(***************************************************************************)
(* Model of the autopilot orchestration core of HX-SayBook                 *)
(* (py/routers/batch_router.py): the run registry, the pause / resume /    *)
(* cancel signals, the LLM producer workers, the voice-match gate, the     *)
(* serial TTS consumer and the batch LLM run with its cancel watcher.      *)
(*                                                                         *)
(* Scheduling is the one of an asyncio event loop: exactly one coroutine   *)
(* runs at a time and keeps the loop until it reaches an await that really *)
(* suspends.  `running` names the coroutine that holds the loop; every     *)
(* step of a coroutine is enabled only while it holds the loop or, when    *)
(* the loop is idle, when the thing it awaits is ready.                    *)
(***************************************************************************)
EXTENDS Integers, Sequences, FiniteSets, TLC

\* ------------------------------------------------------------------ bounds
MaxChapters == 3      \* longest chapter_ids list of a request
MaxSegs == 2          \* most segments split_text returns for a chapter
MaxRuns == 2          \* most start requests accepted in one behaviour of Spec
MaxLines == 2         \* most lines in the LLM output of a segment
MaxEdits == 1         \* most changes of the emotion table in one behaviour of ParseSpec
MaxText == 5          \* longest chapter text, in characters
max_length == 3       \* the segment length split_text is called with (1500 in the program)
MantissaBits == 7     \* significant bits of a float (53 in the program)
NumRoles == 2         \* roles of a project
NumVoices == 2        \* voices of a project's TTS provider
NumProjects == 2      \* project ids the endpoints are called with

\* ------------------------------------------------------- program constants
MAX_SEG_RETRIES == 3
MinConcurrency == 1
MaxConcurrency == 10
retries == 5          \* attempts of generate_text_async

Projects == 1..NumProjects
\* The project the clients start runs for; the others never have a run.
Started == {1}
Chapters == 1..MaxChapters
Roles == 1..NumRoles
Voices == 1..NumVoices

\* Task names.  Idle: no coroutine holds the event loop.
Idle == <<"idle", 0, 0>>
MainT(p) == <<"main", p, 0>>
ProdT(p) == <<"producer", p, 0>>
ConsT(p) == <<"consumer", p, 0>>
WorkT(p, i) == <<"worker", p, i>>

\* manager.broadcast is a chain of interception closures, outermost first;
\* the empty chain is the function of the event sink itself.  A closure is
\* named by the worker whose `success` variable it writes; Dead names the
\* closure of an invocation that has returned (its variable is garbage).
RealBroadcast == <<>>
Dead == <<0, 0>>

VARIABLES
    tasks,      \* _autopilot_tasks: project -> 0 (absent) or the id of the signals it holds
    batch_tasks, \* _batch_llm_tasks: project -> 0 (absent) or the id of the entry
    starts,     \* start requests accepted so far
    live,       \* project -> number of _do_autopilot / _do_batch_llm tasks created and not finished
    run,        \* project -> state of the run (signals, counters, queue, semaphore, lock)
    wk,         \* project -> chapter index -> state of the _llm_worker / _sem_wrapper task
    cons,       \* project -> state of the _tts_consumer task
    voice,      \* project -> role -> bound voice (0: none)
    lines,      \* project -> chapter -> persisted lines, each [role, status]
    broadcast,  \* manager.broadcast (process-wide)
    running,    \* the coroutine that holds the event loop
    env,        \* what the clients and the LLM / TTS / database services do in this behaviour
    hist,       \* history of the run, read by the properties only
    parse       \* the emotion table and one segment parse (para_content_async) with its write

vars == <<tasks, batch_tasks, starts, live, run, wk, cons, voice, lines, broadcast, running, env, hist, parse>>

\* ------------------------------------------------- emotions and strengths
\* A name is a sequence of characters; None is the value of a field that is
\* missing or null.
None == <<"None">>

default_emotion == <<"c">>       \* "pingjing" (calm)
default_strength == <<"m">>      \* "zhongdeng" (medium)
Narrator == "narrator"           \* role_name "pangbai"

\* The rows the start-up creates, in the order of their ids.
SeedEmotions == <<[id |-> 1, name |-> <<"h">>], [id |-> 2, name |-> default_emotion]>>
SeedStrengths == <<[id |-> 1, name |-> <<"w">>], [id |-> 2, name |-> default_strength]>>

\* The names a client gives to an emotion it creates or renames.
EmotionNames == {default_emotion, <<"h">>, <<"c", "h">>, <<"j">>}

\* A line as the LLM gives it: the field missing, empty, a seeded name, a
\* seeded name with a blank before it, a name outside the seeded ones.
LlmItems ==
    [role_name : {Narrator, "other"},
     emotion_name : {None, <<>>, default_emotion, <<"h">>, <<" ", "h">>, <<"x">>},
     strength_name : {None, default_strength, <<"x">>}]

\* The parsed output of one segment: one line, or one line and a second one
\* by a speaker with an emotion outside the seeded names.
LlmOutputs ==
    {<<it>> : it \in LlmItems}
        \cup {<<it, [role_name |-> "other", emotion_name |-> <<"x">>,
                     strength_name |-> default_strength]>> : it \in LlmItems}

\* A correction; index -1 stands for a missing or negative index.
FixItems == [index : -1 .. MaxLines, emotion_name : {default_emotion, <<"h">>, <<"x">>},
             strength_name : {default_strength, <<"x">>}]

\* What the repair call gives: corrections (none: an empty answer), or an
\* exception, raised by the call or after the corrections in data were applied.
FixResults == [raised : BOOLEAN, data : {<<>>} \cup {<<f>> : f \in FixItems}]

\* The characters of a chapter text: a letter, a sentence end (one of
\* the six the program knows), a comma, a line break, a blank.
TextChars == {"a", ".", ",", "\n", " "}

\* The texts of a chapter the stage does not skip as empty.
ChapterTexts == UNION {[1 .. n -> TextChars] : n \in 1 .. MaxText}

\* No backoff computed.
NoSleep == [site |-> "none", limited |-> FALSE, n |-> 0, time |-> 0]

NoParse == [pc |-> "idle", text |-> <<>>, contents |-> <<>>,
            attempt |-> 0, retry_idx |-> 0, sleep |-> NoSleep,
            emotions |-> SeedEmotions, next_id |-> Len(SeedEmotions) + 1,
            edits |-> 0, emotion_names |-> <<>>, strength_names |-> <<>>,
            emotions_dict |-> <<>>, strengths_dict |-> <<>>,
            parsed_data |-> <<>>, line_dtos |-> <<>>, rows |-> <<>>]

\* ------------------------------------------------------------------ values
Sentinel == [ch |-> 0, ok |-> FALSE]

NoRun == [id |-> 0, kind |-> "none", wpc |-> "none", n |-> 0, conc |-> 0, interval |-> 0, manual |-> FALSE,
          cancel |-> FALSE, pause |-> FALSE, resume |-> FALSE,
          llm_done |-> 0, tts_done |-> 0, csm |-> 0,
          queue |-> <<>>, semHeld |-> 0, semQ |-> <<>>,
          lockHeld |-> 0, lockQ |-> <<>>,
          mpc |-> "none", ppc |-> "none", summary |-> "none"]

NoWorker == [pc |-> "none", woken |-> FALSE, wr |-> "none", nsegs |-> 0, seg |-> 0,
             retry |-> 0, acc |-> <<>>, psuccess |-> FALSE, status |-> "none",
             orig |-> RealBroadcast, success |-> FALSE, unb |-> {}]

NoCons == [pc |-> "none", woken |-> FALSE, wr |-> "none", ch |-> 0,
           todo |-> <<>>, has_failure |-> FALSE]

\* History of one run: the chapters whose LLM stage emitted done, in the order
\* their stages returned; the chapters in the order they were put on the queue;
\* the chapters the gate found a role without a voice for with the interval
\* reached; the chapters whose gate emitted voice_needed / voice_matched; the
\* chapters whose LLM stage was entered, whose TTS stage was entered and whose
\* TTS stage has returned, in that order; and for each chapter the counter value
\* its gate was evaluated with (-1: not evaluated); the chapters tagged as parsed
\* that had a role without a voice when the consumer took them from the queue;
\* the success flags the TTS stages returned, in the order of tts_end.
NoHist == [fin |-> <<>>, put |-> <<>>, fired |-> {}, needed |-> {}, matched |-> {},
           began |-> <<>>, tts |-> <<>>, tts_end |-> <<>>, seen |-> [i \in Chapters |-> -1],
           deq |-> {}, tts_ok |-> <<>>]

\* The request of autopilot_start (AutopilotRequest).
Requests(ns, concs, intervals, manuals) ==
    [project_id : Started, n : ns, concurrency : concs,
     voice_match_interval : intervals, manual_voice_assign : manuals]

\* The request of batch_llm_parse (BatchLLMRequest).
BatchRequests(ns, concs) == [project_id : Started, n : ns, concurrency : concs]

\* What the services can answer.
ChapterStates == {"ok", "empty", "config_error"}
LlmResults == {"ok", "rate_limited", "other_error"}
SegOutputs == {<<>>} \cup {<<ro>> : ro \in Roles}
MatchAnswers(voices) == [Roles -> {0} \cup voices]

\* A behaviour is explored under one environment: the start requests the client
\* sends, the signals it sends, the voices the user binds by hand, and the
\* answers the chapter store, the LLM service, the database and the TTS engine
\* can give.
Environment(reqs, breqs, signals, user, chapters, llm, outs, db, tts, match) ==
    [reqs |-> reqs, breqs |-> breqs, signals |-> signals, user |-> user, chapters |-> chapters,
     llm |-> llm, outs |-> outs, db |-> db, tts |-> tts, match |-> match, runs |-> 1,
     segs |-> 1, store |-> {TRUE}, sink |-> {FALSE}, voices |-> {1}]

\* Every service answers; the LLM may fail a segment, the matching call may fail.
Healthy(reqs, signals, user) ==
    Environment(reqs, {}, signals, user, {"ok"}, {"ok", "other_error"},
                {<<1>>}, {TRUE}, {TRUE}, BOOLEAN)

\* A client that pauses, resumes and cancels runs of up to two chapters which
\* parse one at a time.
Signalled ==
    Healthy(Requests(0..2, {0}, {1}, {FALSE}), {"pause", "resume", "cancel"}, {})

\* Two chapters parsed side by side, with every mode of the voice-match gate: the
\* user binds voices by hand and resumes.
Assisted ==
    Healthy(Requests({2}, {11}, {1, 2}, BOOLEAN), {"resume"}, {1})

\* One chapter against services that fail in every way they can.
Faulty ==
    Environment(Requests({1}, {0}, {1}, {FALSE}), {}, {"cancel"}, {}, ChapterStates,
                LlmResults, SegOutputs, BOOLEAN, BOOLEAN, BOOLEAN)

\* The longest chapter list parsed side by side; every parse succeeds and the
\* matching call always fails.
Crowded ==
    Environment(Requests({MaxChapters}, {11}, {1}, {FALSE}), {}, {}, {}, {"ok"}, {"ok"},
                {<<1>>}, {TRUE}, {TRUE}, {TRUE})

\* A batch LLM run of up to two chapters that the client may cancel.
Batched ==
    Environment({}, BatchRequests(1..2, {0, 11}), {"cancel"}, {}, {"ok"},
                {"ok", "other_error"}, {<<1>>}, {TRUE}, {TRUE}, {FALSE})

\* Two chapters side by side with manual voice assignment, and a client that
\* may cancel: the gate parks for one chapter while the other waits for the lock.
Gated == Healthy(Requests({2}, {11}, {1}, {TRUE}), {"cancel"}, {})

\* One chapter that is parsed again by a second run after the first has ended;
\* the LLM gives one line or two.
Repeated ==
    [Environment(Requests({1}, {0}, {1}, {FALSE}), {}, {}, {}, {"ok"}, {"ok"},
                 {<<1>>, <<1, 2>>}, {TRUE}, {TRUE}, {FALSE})
       EXCEPT !.runs = MaxRuns]

\* One chapter of up to MaxSegs segments, any of which the LLM may fail, parsed
\* again by a second run.
Segmented ==
    [Environment(Requests({1}, {0}, {1}, {FALSE}), {}, {}, {}, {"ok"}, {"ok", "other_error"},
                 {<<1>>}, {TRUE}, {TRUE}, {FALSE})
       EXCEPT !.runs = MaxRuns, !.segs = MaxSegs]

\* Two chapters of two lines each, one after the other; the matching call binds
\* the roles, the TTS engine may fail any line and the client may cancel.
Flaky ==
    Environment(Requests({2}, {0}, {1}, {FALSE}), {}, {"cancel"}, {}, {"ok"}, {"ok"},
                {<<1, 2>>}, {TRUE}, BOOLEAN, {FALSE})

\* One chapter whose role the user binds to a voice and unbinds again at will.
Rebound == Healthy(Requests({1}, {0}, {1}, {FALSE}), {}, {0, 1})

\* Two chapters side by side whose lines and roles the store may fail to read
\* when the gate or the consumer looks for unbound roles.
Unreadable ==
    [Environment(Requests({2}, {11}, {1}, {FALSE}), {}, {}, {}, {"ok"}, {"ok"},
                 {<<1>>}, {TRUE}, {TRUE}, {FALSE})
       EXCEPT !.store = BOOLEAN]

\* A batch LLM run of one chapter that a second run parses again and the client
\* may cancel; the event sink may suspend the coroutine that sends an event.
Rebatched ==
    [Environment({}, BatchRequests({1}, {0}), {"cancel"}, {}, {"ok"}, {"ok"},
                 {<<1>>}, {TRUE}, {TRUE}, {FALSE})
       EXCEPT !.runs = MaxRuns, !.sink = BOOLEAN]

\* One chapter of a project whose provider has every voice: the user binds
\* roles to the first voice and the matching call answers with any voice.
Rematched ==
    [Environment(Requests({1}, {0}, {1}, {FALSE}), {}, {}, {1}, {"ok"}, {"ok"},
                 {<<1>>}, {TRUE}, {TRUE}, {FALSE})
       EXCEPT !.voices = Voices]

Environments == {Signalled, Assisted, Faulty, Crowded, Batched, Gated, Repeated, Rebound,
                 Segmented, Flaky, Unreadable, Rebatched, Rematched}

Init ==
    /\ tasks = [p \in Projects |-> 0]
    /\ batch_tasks = [p \in Projects |-> 0]
    /\ starts = 0
    /\ live = [p \in Projects |-> 0]
    /\ run = [p \in Projects |-> NoRun]
    /\ wk = [p \in Projects |-> [i \in Chapters |-> NoWorker]]
    /\ cons = [p \in Projects |-> NoCons]
    /\ voice = [p \in Projects |-> [r \in Roles |-> 0]]
    /\ lines = [p \in Projects |-> [i \in Chapters |-> <<>>]]
    /\ broadcast = RealBroadcast
    /\ running = Idle
    /\ env \in Environments
    /\ hist = [p \in Projects |-> NoHist]
    /\ parse = NoParse

\* ----------------------------------------------------------------- helpers
Max(a, b) == IF a > b THEN a ELSE b
Min(a, b) == IF a < b THEN a ELSE b

\* asyncio.Event.set(): every coroutine parked in wait() on the resume event is woken.
WakeWorkers(ws) ==
    [i \in Chapters |->
        IF ws[i].pc \in {"wr_wait", "gate_wait"} THEN [ws[i] EXCEPT !.woken = TRUE] ELSE ws[i]]
WakeCons(c) == IF c.pc = "wr_wait" THEN [c EXCEPT !.woken = TRUE] ELSE c


\* asyncio.Semaphore.release(): the slot goes to the first waiter, if any.
SemRelease(r) ==
    IF r.semQ = <<>> THEN [r EXCEPT !.semHeld = @ - 1] ELSE [r EXCEPT !.semQ = Tail(@)]
SemGrant(ws, r) ==
    IF r.semQ = <<>> THEN ws ELSE [ws EXCEPT ![Head(r.semQ)].pc = "sem_granted"]

\* asyncio.Lock.release(): the lock goes to the first waiter, if any.
LockRelease(r) ==
    IF r.lockQ = <<>> THEN [r EXCEPT !.lockHeld = 0]
    ELSE [r EXCEPT !.lockHeld = Head(r.lockQ), !.lockQ = Tail(@)]
LockGrant(ws, r) ==
    IF r.lockQ = <<>> THEN ws ELSE [ws EXCEPT ![Head(r.lockQ)].pc = "lock_granted"]

\* The closure `who` has returned: wherever it is still referenced it is Dead.
Bury(chain, who) == [k \in 1..Len(chain) |-> IF chain[k] = who THEN Dead ELSE chain[k]]

\* _intercepted_broadcast, applied to a batch_llm_progress event sent through
\* manager.broadcast: the outermost closure renames the event and, when the
\* status is done, sets its own `success`; the closures below it see the renamed
\* event and only pass it on.
Intercepted(w, chain, status) ==
    IF status = "done" /\ chain # RealBroadcast /\ Head(chain) # Dead
    THEN [w EXCEPT ![Head(chain)[1]][Head(chain)[2]].success = TRUE]
    ELSE w

\* The clamp without its lower end.
Clamp_NoFloor(c) == Min(MaxConcurrency, c)

\* concurrency = max(1, min(10, req.concurrency))
Clamp(c) == Max(MinConcurrency, Min(MaxConcurrency, c))

\* ------------------------------------------------------------- endpoints
NewRun(req, id) ==
    [NoRun EXCEPT !.id = id, !.kind = "autopilot", !.n = req.n, !.conc = Clamp(req.concurrency),
                  !.interval = req.voice_match_interval,
                  !.manual = req.manual_voice_assign,
                  !.resume = TRUE, !.mpc = "new"]

\* autopilot_start without the look-up in the registry.
autopilot_start_unguarded(req) ==
    LET p == req.project_id IN
    /\ running = Idle
    /\ starts' = starts + 1
    /\ tasks' = [tasks EXCEPT ![p] = starts + 1]
    /\ live' = [live EXCEPT ![p] = @ + 1]
    /\ run' = [run EXCEPT ![p] = NewRun(req, starts + 1)]
    /\ wk' = [wk EXCEPT ![p] = [i \in Chapters |-> NoWorker]]
    /\ cons' = [cons EXCEPT ![p] = NoCons]
    /\ hist' = [hist EXCEPT ![p] = NoHist]
    /\ UNCHANGED <<env, parse, batch_tasks, voice, lines, broadcast, running>>

autopilot_start(req) ==
    LET p == req.project_id IN
    /\ running = Idle
    /\ IF tasks[p] # 0
       THEN UNCHANGED <<tasks, starts, live, run, wk, cons, hist>>
       ELSE /\ starts' = starts + 1
            /\ tasks' = [tasks EXCEPT ![p] = starts + 1]
            /\ live' = [live EXCEPT ![p] = @ + 1]
            /\ run' = [run EXCEPT ![p] = NewRun(req, starts + 1)]
            /\ wk' = [wk EXCEPT ![p] = [i \in Chapters |-> NoWorker]]
            /\ cons' = [cons EXCEPT ![p] = NoCons]
            /\ hist' = [hist EXCEPT ![p] = NoHist]
    /\ UNCHANGED <<env, parse, batch_tasks, voice, lines, broadcast, running>>

\* The Res an endpoint returns, from the state it is called in.
StartResponse(req) ==
    IF tasks[req.project_id] # 0
    THEN [op |-> "start", p |-> req.project_id, code |-> 400, data |-> <<>>]
    ELSE [op |-> "start", p |-> req.project_id, code |-> 200,
          data |-> <<req.n, Clamp(req.concurrency)>>]

StatusResponse(p) ==
    IF tasks[p] = 0
    THEN [op |-> "status", p |-> p, code |-> 200, data |-> <<FALSE>>]
    ELSE [op |-> "status", p |-> p, code |-> 200,
          data |-> <<TRUE, run[p].pause, run[p].cancel>>]

ControlResponse(op, p) ==
    [op |-> op, p |-> p, code |-> IF tasks[p] = 0 THEN 404 ELSE 200, data |-> <<>>]

\* autopilot_pause without resume_event.clear().
autopilot_pause_KeepsResume(p) ==
    /\ running = Idle
    /\ IF tasks[p] = 0
       THEN UNCHANGED run
       ELSE run' = [run EXCEPT ![p].pause = TRUE]
    /\ UNCHANGED <<env, parse, batch_tasks, tasks, starts, live, wk, cons, voice, lines, broadcast, running, hist>>

autopilot_pause(p) ==
    /\ running = Idle
    /\ IF tasks[p] = 0
       THEN UNCHANGED run
       ELSE run' = [run EXCEPT ![p].pause = TRUE, ![p].resume = FALSE]
    /\ UNCHANGED <<env, parse, batch_tasks, tasks, starts, live, wk, cons, voice, lines, broadcast, running, hist>>

\* autopilot_resume that also clears cancel_event.
autopilot_resume_ClearsCancel(p) ==
    /\ running = Idle
    /\ IF tasks[p] = 0
       THEN UNCHANGED <<run, wk, cons>>
       ELSE /\ run' = [run EXCEPT ![p].pause = FALSE, ![p].resume = TRUE, ![p].cancel = FALSE]
            /\ wk' = [wk EXCEPT ![p] = WakeWorkers(@)]
            /\ cons' = [cons EXCEPT ![p] = WakeCons(@)]
    /\ UNCHANGED <<env, parse, batch_tasks, tasks, starts, live, voice, lines, broadcast, running, hist>>

autopilot_resume(p) ==
    /\ running = Idle
    /\ IF tasks[p] = 0
       THEN UNCHANGED <<run, wk, cons>>
       ELSE /\ run' = [run EXCEPT ![p].pause = FALSE, ![p].resume = TRUE]
            /\ wk' = [wk EXCEPT ![p] = WakeWorkers(@)]
            /\ cons' = [cons EXCEPT ![p] = WakeCons(@)]
    /\ UNCHANGED <<env, parse, batch_tasks, tasks, starts, live, voice, lines, broadcast, running, hist>>

\* autopilot_cancel without the look-up in the registry.
autopilot_cancel_NoLookup(p) ==
    /\ running = Idle
    /\ run' = [run EXCEPT ![p].cancel = TRUE, ![p].resume = TRUE]
    /\ wk' = [wk EXCEPT ![p] = WakeWorkers(@)]
    /\ cons' = [cons EXCEPT ![p] = WakeCons(@)]
    /\ UNCHANGED <<env, parse, batch_tasks, tasks, starts, live, voice, lines, broadcast, running, hist>>

\* autopilot_cancel without resume_event.set().
autopilot_cancel_NoResume(p) ==
    /\ running = Idle
    /\ IF tasks[p] = 0
       THEN UNCHANGED run
       ELSE run' = [run EXCEPT ![p].cancel = TRUE]
    /\ UNCHANGED <<env, parse, batch_tasks, tasks, starts, live, wk, cons, voice, lines, broadcast, running, hist>>

autopilot_cancel(p) ==
    /\ running = Idle
    /\ IF tasks[p] = 0
       THEN UNCHANGED <<run, wk, cons>>
       ELSE /\ run' = [run EXCEPT ![p].cancel = TRUE, ![p].resume = TRUE]
            /\ wk' = [wk EXCEPT ![p] = WakeWorkers(@)]
            /\ cons' = [cons EXCEPT ![p] = WakeCons(@)]
    /\ UNCHANGED <<env, parse, batch_tasks, tasks, starts, live, voice, lines, broadcast, running, hist>>

\* update_role of the role router: the user binds a voice to a role, or unbinds it.
update_role(p, r, v) ==
    /\ voice[p][r] # v
    /\ voice' = [voice EXCEPT ![p][r] = v]
    /\ UNCHANGED <<env, parse, batch_tasks, tasks, starts, live, run, wk, cons, lines, broadcast, running, hist>>

\* ------------------------------------------------- _do_autopilot, producer
DoAutopilotStart(p) ==
    /\ running = Idle
    /\ run[p].kind = "autopilot"
    /\ run[p].mpc = "new"
    /\ run' = [run EXCEPT ![p].mpc = "gather", ![p].ppc = "new"]
    /\ cons' = [cons EXCEPT ![p].pc = "top"]
    /\ UNCHANGED <<env, parse, batch_tasks, tasks, starts, live, wk, voice, lines, broadcast, running, hist>>

\* The producer creates every worker in one go (no await in the loop), unless
\* cancel is already set; with no worker it puts the sentinel at once.
LlmProducerStart(p) ==
    /\ running = Idle
    /\ run[p].ppc = "new"
    /\ IF run[p].cancel \/ run[p].n = 0
       THEN /\ run' = [run EXCEPT ![p].ppc = "done", ![p].queue = Append(@, Sentinel)]
            /\ UNCHANGED wk
       ELSE /\ run' = [run EXCEPT ![p].ppc = "gather"]
            /\ wk' = [wk EXCEPT ![p] = [i \in Chapters |->
                        IF i <= run[p].n THEN [NoWorker EXCEPT !.pc = "new"] ELSE NoWorker]]
    /\ UNCHANGED <<env, parse, batch_tasks, tasks, starts, live, cons, voice, lines, broadcast, running, hist>>

WorkersDone(p) == \A i \in 1..run[p].n : wk[p][i].pc = "done"

\* The producer putting the sentinel without waiting for the workers.
LlmProducerEnd_NoGather(p) ==
    /\ running = Idle
    /\ run[p].ppc = "gather"
    /\ run' = [run EXCEPT ![p].ppc = "done", ![p].queue = Append(@, Sentinel)]
    /\ UNCHANGED <<env, parse, batch_tasks, tasks, starts, live, wk, cons, voice, lines, broadcast, running, hist>>

LlmProducerEnd(p) ==
    /\ running = Idle
    /\ run[p].ppc = "gather"
    /\ WorkersDone(p)
    /\ run' = [run EXCEPT ![p].ppc = "done", ![p].queue = Append(@, Sentinel)]
    /\ UNCHANGED <<env, parse, batch_tasks, tasks, starts, live, wk, cons, voice, lines, broadcast, running, hist>>

DoAutopilotEnd(p) ==
    /\ running = Idle
    /\ run[p].kind = "autopilot"
    /\ run[p].mpc = "gather"
    /\ run[p].ppc = "done"
    /\ cons[p].pc = "done"
    /\ run' = [run EXCEPT ![p].mpc = "finished",
                           ![p].summary = IF run[p].cancel THEN "cancelled" ELSE "completed"]
    /\ live' = [live EXCEPT ![p] = @ - 1]
    /\ UNCHANGED <<env, parse, batch_tasks, tasks, starts, wk, cons, voice, lines, broadcast, running, hist>>

\* asyncio.gather without return_exceptions: the exception of the consumer is
\* raised in _do_autopilot at once, which ends without the summary event; the
\* producer and its workers are not cancelled.
DoAutopilotCrash(p) ==
    /\ running = Idle
    /\ run[p].kind = "autopilot"
    /\ run[p].mpc = "gather"
    /\ cons[p].pc = "crashed"
    /\ run' = [run EXCEPT ![p].mpc = "crashed"]
    /\ live' = [live EXCEPT ![p] = @ - 1]
    /\ UNCHANGED <<env, parse, batch_tasks, tasks, starts, wk, cons, voice, lines, broadcast, running, hist>>

\* The done callback of a task that ended with an exception: the registry entry
\* is removed while the producer and the workers of the run go on.
CleanupCrashed(p) ==
    /\ running = Idle
    /\ run[p].mpc = "crashed"
    /\ tasks' = [tasks EXCEPT ![p] = 0]
    /\ run' = [run EXCEPT ![p].mpc = "orphaned"]
    /\ UNCHANGED <<env, parse, batch_tasks, starts, live, wk, cons, voice, lines, broadcast, running, hist>>

\* The done callback of the task: the registry entry is removed.  The locals of
\* the finished coroutine are garbage from here on.
Cleanup(p) ==
    /\ running = Idle
    /\ run[p].mpc = "finished"
    /\ IF run[p].kind = "batch"
       THEN batch_tasks' = [batch_tasks EXCEPT ![p] = 0] /\ UNCHANGED tasks
       ELSE tasks' = [tasks EXCEPT ![p] = 0] /\ UNCHANGED batch_tasks
    /\ run' = [run EXCEPT ![p] = NoRun]
    /\ wk' = [wk EXCEPT ![p] = [i \in Chapters |-> NoWorker]]
    /\ cons' = [cons EXCEPT ![p] = NoCons]
    /\ hist' = [hist EXCEPT ![p] = NoHist]
    /\ UNCHANGED <<env, parse, starts, live, voice, lines, broadcast, running>>

\* ------------------------------------------------------------ _llm_worker
\* Frame of a worker step: only run, wk, broadcast, lines, voice, hist, running change.
WFrame == UNCHANGED <<tasks, batch_tasks, starts, live, cons, env, parse>>

\* _autopilot_wait_resume up to its await: False when cancel is set, a wait on
\* the resume event when pause is set, True otherwise.
WaitResumeEnter(r) ==
    IF r.cancel THEN "false" ELSE IF r.pause THEN "wait" ELSE "true"

\* The first step of a worker: _autopilot_wait_resume at its top.  The tasks were
\* created in the order of the chapter list and start in that order.
WorkerStart(p, i) ==
    LET r == run[p]  w == wk[p][i] IN
    /\ running = Idle
    /\ w.pc = "new"
    /\ \A j \in 1..(i - 1) : wk[p][j].pc # "new"
    /\ IF WaitResumeEnter(r) = "false"
       THEN /\ wk' = [wk EXCEPT ![p][i].pc = "done", ![p][i].wr = "false"]
            /\ UNCHANGED running
       ELSE IF WaitResumeEnter(r) = "wait"
       THEN /\ wk' = [wk EXCEPT ![p][i].pc = "wr_wait", ![p][i].woken = r.resume]
            /\ UNCHANGED running
       ELSE /\ wk' = [wk EXCEPT ![p][i].pc = "sem", ![p][i].wr = "true"]
            /\ running' = WorkT(p, i)
    /\ UNCHANGED <<run, voice, lines, broadcast, hist>>
    /\ WFrame

\* The wake-up without the second look at cancel.
WaitResumeWake_NoRecheck(r, w) == [w EXCEPT !.wr = "resumed", !.woken = FALSE]

\* resume_event.wait() has returned: cancel is checked again; without cancel the
\* resumed event is emitted and the call returns True ("resumed").
WaitResumeWake(r, w) ==
    IF r.cancel THEN [w EXCEPT !.wr = "false", !.woken = FALSE]
    ELSE [w EXCEPT !.wr = "resumed", !.woken = FALSE]

WorkerResumed(p, i) ==
    LET r == run[p]  w == WaitResumeWake(r, wk[p][i]) IN
    /\ running = Idle
    /\ wk[p][i].pc = "wr_wait"
    /\ wk[p][i].woken
    /\ IF w.wr = "false"
       THEN /\ wk' = [wk EXCEPT ![p][i] = [w EXCEPT !.pc = "done"]]
            /\ UNCHANGED running
       ELSE /\ wk' = [wk EXCEPT ![p][i] = [w EXCEPT !.pc = "sem"]]
            /\ running' = WorkT(p, i)
    /\ UNCHANGED <<run, voice, lines, broadcast, hist>>
    /\ WFrame

\* async with semaphore: enter.
WorkerAcquire(p, i) ==
    LET r == run[p] IN
    /\ running = WorkT(p, i)
    /\ wk[p][i].pc = "sem"
    /\ IF r.semHeld < r.conc /\ r.semQ = <<>>
       THEN /\ run' = [run EXCEPT ![p].semHeld = @ + 1]
            /\ wk' = [wk EXCEPT ![p][i].pc = "sem_in", ![p][i].wr = "none"]
            /\ UNCHANGED running
       ELSE /\ run' = [run EXCEPT ![p].semQ = Append(@, i)]
            /\ wk' = [wk EXCEPT ![p][i].pc = "sem_wait", ![p][i].wr = "none"]
            /\ running' = Idle
    /\ UNCHANGED <<voice, lines, broadcast, hist>>
    /\ WFrame

WorkerGranted(p, i) ==
    /\ running = Idle
    /\ wk[p][i].pc = "sem_granted"
    /\ wk' = [wk EXCEPT ![p][i].pc = IF run[p].kind = "batch" THEN "b_sem_in" ELSE "sem_in"]
    /\ running' = WorkT(p, i)
    /\ UNCHANGED <<run, voice, lines, broadcast, hist>>
    /\ WFrame

\* The worker inside the semaphore without its cancel check.
WorkerEnter_NoCancelCheck(p, i) ==
    /\ running = WorkT(p, i)
    /\ wk[p][i].pc = "sem_in"
    /\ wk' = [wk EXCEPT ![p][i].pc = "stage", ![p][i].orig = broadcast,
                         ![p][i].success = FALSE]
    /\ broadcast' = <<<<p, i>>>> \o broadcast
    /\ hist' = [hist EXCEPT ![p].began = Append(@, i)]
    /\ UNCHANGED <<run, running, voice, lines>>
    /\ WFrame

\* Inside the semaphore: the cancel check, then _autopilot_llm_single_chapter
\* installs its interception closure over manager.broadcast.
WorkerEnter(p, i) ==
    LET r == run[p] IN
    /\ running = WorkT(p, i)
    /\ wk[p][i].pc = "sem_in"
    /\ IF r.cancel
       THEN /\ run' = [run EXCEPT ![p] = SemRelease(r)]
            /\ wk' = [wk EXCEPT ![p] = SemGrant([@ EXCEPT ![i].pc = "done"], r)]
            /\ running' = Idle
            /\ UNCHANGED <<broadcast, hist>>
       ELSE /\ wk' = [wk EXCEPT ![p][i].pc = "stage", ![p][i].orig = broadcast,
                                ![p][i].success = FALSE]
            /\ broadcast' = <<<<p, i>>>> \o broadcast
            /\ hist' = [hist EXCEPT ![p].began = Append(@, i)]
            /\ UNCHANGED <<run, running>>
    /\ UNCHANGED <<voice, lines>>
    /\ WFrame

\* _process_single_chapter_async up to the segment loop: the cancel check, the
\* chapter text, the split, the project configuration and the prompt.
StageBegin(p, i) ==
    LET r == run[p] IN
    /\ running = WorkT(p, i)
    /\ wk[p][i].pc = "stage"
    /\ IF r.cancel
       THEN wk' = [wk EXCEPT ![p][i].pc = "llm_exit", ![p][i].status = "cancelled"]
       ELSE \E c \in env.chapters, n \in 1..env.segs :
              wk' = [wk EXCEPT ![p][i] =
                       IF c = "ok"
                       THEN [@ EXCEPT !.pc = "seg_top", !.status = "processing",
                                      !.nsegs = n, !.seg = 1, !.acc = <<>>,
                                      !.psuccess = TRUE]
                       ELSE [@ EXCEPT !.pc = "llm_exit",
                                      !.status = IF c = "empty" THEN "skipped" ELSE "error"]]
    /\ UNCHANGED <<run, voice, lines, broadcast, hist, running>>
    /\ WFrame

\* Top of the segment loop: cancel is checked before each segment.
SegmentTop(p, i) ==
    /\ running = WorkT(p, i)
    /\ wk[p][i].pc = "seg_top"
    /\ wk' = IF run[p].cancel
             THEN [wk EXCEPT ![p][i].pc = "llm_exit", ![p][i].status = "cancelled"]
             ELSE [wk EXCEPT ![p][i].pc = "try_top", ![p][i].retry = 0]
    /\ UNCHANGED <<run, voice, lines, broadcast, hist, running>>
    /\ WFrame

\* Top of the retry loop: cancel is checked, then the segment goes to the LLM.
AttemptTop(p, i) ==
    /\ running = WorkT(p, i)
    /\ wk[p][i].pc = "try_top"
    /\ IF run[p].cancel
       THEN /\ wk' = [wk EXCEPT ![p][i].pc = "llm_exit", ![p][i].status = "cancelled"]
            /\ UNCHANGED running
       ELSE /\ wk' = [wk EXCEPT ![p][i].pc = "llm_call"]
            /\ running' = Idle
    /\ UNCHANGED <<run, voice, lines, broadcast, hist>>
    /\ WFrame

\* What para_content_async gives for a segment: lines (their role names), or a
\* failure that _is_rate_limit_error classifies.

\* The retry loop retrying every failure while attempts remain.
SegmentResult_RetriesAny(w, res, out) ==
    IF res = "ok"
    THEN IF w.seg < w.nsegs
         THEN [w EXCEPT !.acc = @ \o out, !.seg = @ + 1, !.pc = "seg_top"]
         ELSE [w EXCEPT !.acc = @ \o out, !.pc = "persist"]
    ELSE IF w.retry < MAX_SEG_RETRIES - 1
    THEN [w EXCEPT !.pc = "seg_sleep"]
    ELSE [w EXCEPT !.psuccess = FALSE, !.pc = "persist"]

SegmentResult(w, res, out) ==
    IF res = "ok"
    THEN IF w.seg < w.nsegs
         THEN [w EXCEPT !.acc = @ \o out, !.seg = @ + 1, !.pc = "seg_top"]
         ELSE [w EXCEPT !.acc = @ \o out, !.pc = "persist"]
    ELSE IF res = "rate_limited" /\ w.retry < MAX_SEG_RETRIES - 1
    THEN [w EXCEPT !.pc = "seg_sleep"]
    ELSE [w EXCEPT !.psuccess = FALSE, !.pc = "persist"]

LlmCallReturns(p, i) ==
    /\ running = Idle
    /\ wk[p][i].pc = "llm_call"
    /\ \E res \in env.llm, out \in env.outs \cup {<<>>} :
         LET w == SegmentResult(wk[p][i], res, out) IN
         /\ res = "ok" => out \in env.outs
         /\ res # "ok" => out = <<>>
         /\ wk' = [wk EXCEPT ![p][i] = w]
         /\ running' = IF w.pc = "seg_sleep" THEN Idle ELSE WorkT(p, i)
    /\ UNCHANGED <<run, voice, lines, broadcast, hist>>
    /\ WFrame

\* The backoff sleep is over: next attempt of the same segment.
BackoffOver(p, i) ==
    /\ running = Idle
    /\ wk[p][i].pc = "seg_sleep"
    /\ wk' = [wk EXCEPT ![p][i].pc = "try_top", ![p][i].retry = @ + 1]
    /\ running' = WorkT(p, i)
    /\ UNCHANGED <<run, voice, lines, broadcast, hist>>
    /\ WFrame

\* After the loop: on full success the old lines are deleted and the new ones
\* written, and the done event goes through manager.broadcast.
NewLines(acc) == [k \in 1..Len(acc) |-> [role |-> acc[k], status |-> "pending"]]

\* The write without the deletion of the lines the chapter already has.
KeepExisting(ls) == ls

\* existing_lines = get_all_lines; delete_all_lines when there are any.
DeleteExisting(ls) == IF Len(ls) > 0 THEN <<>> ELSE ls

\* The write that commits what was parsed although a segment failed.
Persist_CommitsPartial(p, i) ==
    LET w == wk[p][i] IN
    /\ running = WorkT(p, i)
    /\ w.pc = "persist"
    /\ lines' = [lines EXCEPT ![p][i] = DeleteExisting(@) \o NewLines(w.acc)]
    /\ wk' = IF w.psuccess /\ w.acc # <<>>
             THEN Intercepted([wk EXCEPT ![p][i].pc = "llm_exit", ![p][i].status = "done"],
                              broadcast, "done")
             ELSE [wk EXCEPT ![p][i].pc = "llm_exit", ![p][i].status = "error"]
    /\ UNCHANGED <<run, voice, broadcast, hist, running>>
    /\ WFrame

Persist(p, i) ==
    LET w == wk[p][i] IN
    /\ running = WorkT(p, i)
    /\ w.pc = "persist"
    /\ IF w.psuccess /\ w.acc # <<>>
       THEN \E dbok \in env.db :
              IF dbok
              THEN /\ lines' = [lines EXCEPT ![p][i] = DeleteExisting(@) \o NewLines(w.acc)]
                   /\ wk' = Intercepted([wk EXCEPT ![p][i].pc = "llm_exit",
                                                   ![p][i].status = "done"],
                                        broadcast, "done")
              ELSE /\ lines' = [lines EXCEPT ![p][i] = <<>>]
                   /\ wk' = [wk EXCEPT ![p][i].pc = "llm_exit", ![p][i].status = "error"]
       ELSE /\ wk' = [wk EXCEPT ![p][i].pc = "llm_exit", ![p][i].status = "error"]
            /\ UNCHANGED lines
    /\ UNCHANGED <<run, voice, broadcast, hist, running>>
    /\ WFrame

\* The write up to the event that follows the deletion of the old lines, with
\* an event sink that suspends the sender: the old lines are gone and the
\* coroutine waits in manager.broadcast.
PersistSuspends(p, i) ==
    LET w == wk[p][i] IN
    /\ running = WorkT(p, i)
    /\ w.pc = "persist"
    /\ w.psuccess /\ w.acc # <<>>
    /\ Len(lines[p][i]) > 0
    /\ TRUE \in env.sink
    /\ lines' = [lines EXCEPT ![p][i] = DeleteExisting(@)]
    /\ wk' = [wk EXCEPT ![p][i].pc = "persist_mid"]
    /\ running' = Idle
    /\ UNCHANGED <<run, voice, broadcast, hist>>
    /\ WFrame

\* manager.broadcast has returned: update_init_lines and the done event.
PersistInsert(p, i) ==
    LET w == wk[p][i] IN
    /\ running = Idle
    /\ w.pc = "persist_mid"
    /\ \E dbok \in env.db :
          IF dbok
          THEN /\ lines' = [lines EXCEPT ![p][i] = @ \o NewLines(w.acc)]
               /\ wk' = Intercepted([wk EXCEPT ![p][i].pc = "llm_exit",
                                               ![p][i].status = "done"],
                                    broadcast, "done")
          ELSE /\ wk' = [wk EXCEPT ![p][i].pc = "llm_exit", ![p][i].status = "error"]
               /\ UNCHANGED lines
    /\ running' = WorkT(p, i)
    /\ UNCHANGED <<run, voice, broadcast, hist>>
    /\ WFrame

BuryAll(w, who) ==
    [p \in Projects |-> [i \in Chapters |-> [w[p][i] EXCEPT !.orig = Bury(@, who)]]]

\* The worker going on after a failed LLM stage without putting the chapter on
\* the queue.
LlmExit_DropsFailed(p, i) ==
    LET r == run[p]
        w == wk[p][i]
        h == IF w.status = "done" THEN [hist[p] EXCEPT !.fin = Append(@, i)] ELSE hist[p]
        r1 == [r EXCEPT !.llm_done = @ + 1]
    IN
    /\ running = WorkT(p, i)
    /\ w.pc = "llm_exit"
    /\ r.kind = "autopilot"
    /\ broadcast' = w.orig
    /\ hist' = [hist EXCEPT ![p] =
                  IF r.cancel \/ w.success THEN h ELSE [h EXCEPT !.put = Append(@, i)]]
    /\ IF r.cancel
       THEN /\ run' = [run EXCEPT ![p] = SemRelease(r)]
            /\ wk' = BuryAll([wk EXCEPT ![p] = SemGrant([@ EXCEPT ![i].pc = "done"], r)],
                             <<p, i>>)
            /\ running' = Idle
       ELSE IF w.success
       THEN /\ run' = [run EXCEPT ![p] = [r1 EXCEPT !.csm = @ + 1]]
            /\ wk' = BuryAll([wk EXCEPT ![p][i].pc = "lock"], <<p, i>>)
            /\ UNCHANGED running
       ELSE /\ run' = [run EXCEPT ![p] = r1]
            /\ wk' = BuryAll([wk EXCEPT ![p][i].pc = "sleep"], <<p, i>>)
            /\ running' = Idle
    /\ UNCHANGED <<voice, lines>>
    /\ WFrame

\* The exit putting a failed chapter on the queue without counting it.
LlmExit_PutsUncounted(p, i) ==
    LET r == run[p]
        w == wk[p][i]
        h == IF w.status = "done" THEN [hist[p] EXCEPT !.fin = Append(@, i)] ELSE hist[p]
        r1 == [r EXCEPT !.llm_done = @ + 1]
    IN
    /\ running = WorkT(p, i)
    /\ w.pc = "llm_exit"
    /\ r.kind = "autopilot"
    /\ broadcast' = w.orig
    /\ hist' = [hist EXCEPT ![p] =
                  IF r.cancel \/ w.success THEN h ELSE [h EXCEPT !.put = Append(@, i)]]
    /\ IF r.cancel
       THEN /\ run' = [run EXCEPT ![p] = SemRelease(r)]
            /\ wk' = BuryAll([wk EXCEPT ![p] = SemGrant([@ EXCEPT ![i].pc = "done"], r)],
                             <<p, i>>)
            /\ running' = Idle
       ELSE IF w.success
       THEN /\ run' = [run EXCEPT ![p] = [r1 EXCEPT !.csm = @ + 1]]
            /\ wk' = BuryAll([wk EXCEPT ![p][i].pc = "lock"], <<p, i>>)
            /\ UNCHANGED running
       ELSE /\ run' = [run EXCEPT ![p] =
                        [r EXCEPT !.queue = Append(@, [ch |-> i, ok |-> FALSE])]]
            /\ wk' = BuryAll([wk EXCEPT ![p][i].pc = "sleep"], <<p, i>>)
            /\ running' = Idle
    /\ UNCHANGED <<voice, lines>>
    /\ WFrame

\* _autopilot_llm_single_chapter returns: manager.broadcast is set back to what
\* this invocation found, and the worker goes on with the flag of its closure.
LlmExit(p, i) ==
    LET r == run[p]
        w == wk[p][i]
        h == IF w.status = "done" THEN [hist[p] EXCEPT !.fin = Append(@, i)] ELSE hist[p]
        r1 == [r EXCEPT !.llm_done = @ + 1]
    IN
    /\ running = WorkT(p, i)
    /\ w.pc = "llm_exit"
    /\ r.kind = "autopilot"
    /\ broadcast' = w.orig
    /\ hist' = [hist EXCEPT ![p] =
                  IF r.cancel \/ w.success THEN h ELSE [h EXCEPT !.put = Append(@, i)]]
    /\ IF r.cancel
       THEN /\ run' = [run EXCEPT ![p] = SemRelease(r)]
            /\ wk' = BuryAll([wk EXCEPT ![p] = SemGrant([@ EXCEPT ![i].pc = "done"], r)],
                             <<p, i>>)
            /\ running' = Idle
       ELSE IF w.success
       THEN /\ run' = [run EXCEPT ![p] = [r1 EXCEPT !.csm = @ + 1]]
            /\ wk' = BuryAll([wk EXCEPT ![p][i].pc = "lock"], <<p, i>>)
            /\ UNCHANGED running
       ELSE /\ run' = [run EXCEPT ![p] =
                        [r1 EXCEPT !.queue = Append(@, [ch |-> i, ok |-> FALSE])]]
            /\ wk' = BuryAll([wk EXCEPT ![p][i].pc = "sleep"], <<p, i>>)
            /\ running' = Idle
    /\ UNCHANGED <<voice, lines>>
    /\ WFrame

\* The entry of the gate section taking no lock.
LockAcquire_NoLock(p, i) ==
    /\ running = WorkT(p, i)
    /\ wk[p][i].pc = "lock"
    /\ run' = [run EXCEPT ![p].lockHeld = i]
    /\ wk' = [wk EXCEPT ![p][i].pc = "gate"]
    /\ UNCHANGED <<voice, lines, broadcast, hist, running>>
    /\ WFrame

\* async with voice_match_lock: enter.
LockAcquire(p, i) ==
    LET r == run[p] IN
    /\ running = WorkT(p, i)
    /\ wk[p][i].pc = "lock"
    /\ IF r.lockHeld = 0 /\ r.lockQ = <<>>
       THEN /\ run' = [run EXCEPT ![p].lockHeld = i]
            /\ wk' = [wk EXCEPT ![p][i].pc = "gate"]
            /\ UNCHANGED running
       ELSE /\ run' = [run EXCEPT ![p].lockQ = Append(@, i)]
            /\ wk' = [wk EXCEPT ![p][i].pc = "lock_wait"]
            /\ running' = Idle
    /\ UNCHANGED <<voice, lines, broadcast, hist>>
    /\ WFrame

LockGranted(p, i) ==
    /\ running = Idle
    /\ wk[p][i].pc = "lock_granted"
    /\ wk' = [wk EXCEPT ![p][i].pc = "gate"]
    /\ running' = WorkT(p, i)
    /\ UNCHANGED <<run, voice, lines, broadcast, hist>>
    /\ WFrame

\* _check_chapter_unbound_roles: the roles of the chapter's lines with no voice.
CheckChapterUnboundRoles(p, i) ==
    {ro \in Roles : /\ voice[p][ro] = 0
                    /\ \E k \in 1..Len(lines[p][i]) : lines[p][i][k].role = ro}

\* The gate pauses the run and goes into _autopilot_wait_resume: cancel is
\* checked first, then (pause being set) the coroutine parks on the resume event.
GatePause(r, w) ==
    IF WaitResumeEnter([r EXCEPT !.pause = TRUE]) = "false"
    THEN [w EXCEPT !.wr = "false", !.pc = "gate_exit"]
    ELSE [w EXCEPT !.pc = "gate_wait", !.woken = FALSE]

\* _autopilot_check_voice_match up to its first await.
VoiceMatchGate(p, i) ==
    LET r == run[p]
        w == wk[p][i]
        need == r.csm >= r.interval
        unbound == CheckChapterUnboundRoles(p, i)
        fired == [hist[p] EXCEPT !.fired = IF need /\ unbound # {} THEN @ \cup {i} ELSE @,
                                 !.seen[i] = r.csm]
    IN
    /\ running = WorkT(p, i)
    /\ w.pc = "gate"
    /\ IF ~(need \/ r.manual) \/ unbound = {}
       THEN /\ wk' = [wk EXCEPT ![p][i].pc = "gate_exit"]
            /\ hist' = [hist EXCEPT ![p] = fired]
            /\ UNCHANGED <<run, running>>
       ELSE IF r.manual
       THEN /\ run' = [run EXCEPT ![p].pause = TRUE, ![p].resume = FALSE]
            /\ wk' = [wk EXCEPT ![p][i] = GatePause(r, w)]
            /\ hist' = [hist EXCEPT ![p] = [fired EXCEPT !.needed = @ \cup {i}]]
            /\ running' = IF r.cancel THEN WorkT(p, i) ELSE Idle
       ELSE /\ wk' = [wk EXCEPT ![p][i].pc = "match_call",
                                ![p][i].unb = {ro \in Roles : voice[p][ro] = 0}]
            /\ hist' = [hist EXCEPT ![p] = fired]
            /\ running' = Idle
            /\ UNCHANGED run
    /\ UNCHANGED <<voice, lines, broadcast>>
    /\ WFrame

\* _check_chapter_unbound_roles raises in the gate: the exception leaves the
\* lock and the semaphore and ends the worker, whose chapter is not queued.
GateReadFails(p, i) ==
    LET r == run[p]
        r1 == LockRelease(r)
    IN
    /\ running = WorkT(p, i)
    /\ wk[p][i].pc = "gate"
    /\ r.csm >= r.interval \/ r.manual
    /\ FALSE \in env.store
    /\ run' = [run EXCEPT ![p] = SemRelease(r1)]
    /\ wk' = [wk EXCEPT ![p] = SemGrant(LockGrant([@ EXCEPT ![i].pc = "done"], r), r1)]
    /\ running' = Idle
    /\ UNCHANGED <<voice, lines, broadcast, hist>>
    /\ WFrame

\* What the matching call gives: an exception, or for each role the voice the
\* answer maps it to (0: the answer has no usable mapping for the role).
ApplyMatch(v, m) == [ro \in Roles |-> IF m[ro] # 0 THEN m[ro] ELSE v[ro]]

\* _autopilot_smart_voice_match returns and the gate acts on its result.
MatchCallReturns(p, i) ==
    LET r == run[p]  w == wk[p][i] IN
    /\ running = Idle
    /\ w.pc = "match_call"
    /\ \E failed \in env.match, m \in MatchAnswers(env.voices) :
         LET matched == IF failed THEN {} ELSE {ro \in Roles : m[ro] # 0}
             unmatched == IF failed THEN {} ELSE w.unb \ matched
             h1 == IF matched # {} THEN [hist[p] EXCEPT !.matched = @ \cup {i}] ELSE hist[p]
             h2 == IF unmatched # {} THEN [h1 EXCEPT !.needed = @ \cup {i}] ELSE h1
         IN
         /\ failed => m = [ro \in Roles |-> 0]
         /\ voice' = [voice EXCEPT ![p] = IF failed THEN @ ELSE ApplyMatch(@, m)]
         /\ hist' = [hist EXCEPT ![p] = h2]
         /\ IF unmatched # {}
            THEN /\ run' = [run EXCEPT ![p].pause = TRUE, ![p].resume = FALSE]
                 /\ wk' = [wk EXCEPT ![p][i] = GatePause(r, [w EXCEPT !.unb = {}])]
                 /\ running' = IF r.cancel THEN WorkT(p, i) ELSE Idle
            ELSE /\ wk' = [wk EXCEPT ![p][i].pc = "gate_exit", ![p][i].unb = {}]
                 /\ running' = WorkT(p, i)
                 /\ UNCHANGED run
    /\ UNCHANGED <<lines, broadcast>>
    /\ WFrame

\* The gate's pause wait is over.
GateResumed(p, i) ==
    LET w == WaitResumeWake(run[p], wk[p][i]) IN
    /\ running = Idle
    /\ wk[p][i].pc = "gate_wait"
    /\ wk[p][i].woken
    /\ wk' = [wk EXCEPT ![p][i] = [w EXCEPT !.pc = "gate_exit"]]
    /\ running' = WorkT(p, i)
    /\ UNCHANGED <<run, voice, lines, broadcast, hist>>
    /\ WFrame

\* The gate exit putting the chapter on the queue twice.
GateExit_PutsTwice(p, i) ==
    LET r == run[p]
        r1 == [r EXCEPT !.csm = IF @ >= r.interval THEN 0 ELSE @,
                        !.queue = @ \o <<[ch |-> i, ok |-> TRUE], [ch |-> i, ok |-> TRUE]>>]
    IN
    /\ running = WorkT(p, i)
    /\ wk[p][i].pc = "gate_exit"
    /\ run' = [run EXCEPT ![p] = LockRelease(r1)]
    /\ wk' = [wk EXCEPT ![p] = LockGrant([@ EXCEPT ![i].pc = "sleep", ![i].wr = "none"], r)]
    /\ running' = Idle
    /\ hist' = [hist EXCEPT ![p].put = @ \o <<i, i>>]
    /\ UNCHANGED <<voice, lines, broadcast>>
    /\ WFrame

\* Back in the worker, still under the lock: the counter is reset when it has
\* reached the interval; the lock is released and the chapter is put on the queue.
GateExit(p, i) ==
    LET r == run[p]
        r1 == [r EXCEPT !.csm = IF @ >= r.interval THEN 0 ELSE @,
                        !.queue = Append(@, [ch |-> i, ok |-> TRUE])]
    IN
    /\ running = WorkT(p, i)
    /\ wk[p][i].pc = "gate_exit"
    /\ run' = [run EXCEPT ![p] = LockRelease(r1)]
    /\ wk' = [wk EXCEPT ![p] = LockGrant([@ EXCEPT ![i].pc = "sleep", ![i].wr = "none"], r)]
    /\ running' = Idle
    /\ hist' = [hist EXCEPT ![p].put = Append(@, i)]
    /\ UNCHANGED <<voice, lines, broadcast>>
    /\ WFrame

\* asyncio.sleep(0.1) is over: the worker leaves the semaphore and ends.
WorkerEnd(p, i) ==
    LET r == run[p] IN
    /\ running = Idle
    /\ wk[p][i].pc = "sleep"
    /\ run' = [run EXCEPT ![p] = SemRelease(r)]
    /\ wk' = [wk EXCEPT ![p] = SemGrant([@ EXCEPT ![i].pc = "done"], r)]
    /\ UNCHANGED <<voice, lines, broadcast, hist, running>>
    /\ WFrame

\* ----------------------------------------------------------- _tts_consumer
CFrame == UNCHANGED <<tasks, batch_tasks, starts, live, wk, voice, broadcast, env, parse>>

\* The consumer going from the queue to the TTS stage without the pause check.
ConsumerTake_NoPauseCheck(p) ==
    LET r == run[p]
        item == Head(r.queue)
        r1 == [r EXCEPT !.queue = Tail(@)]
    IN
    /\ hist' = [hist EXCEPT ![p].deq =
                  IF item # Sentinel /\ ~r.cancel /\ item.ok
                     /\ CheckChapterUnboundRoles(p, item.ch) # {}
                  THEN @ \cup {item.ch} ELSE @]
    /\ IF item = Sentinel \/ r.cancel
       THEN /\ run' = [run EXCEPT ![p] = r1]
            /\ cons' = [cons EXCEPT ![p].pc = "done"]
            /\ running' = Idle
       ELSE IF ~item.ok
       THEN /\ run' = [run EXCEPT ![p] = [r1 EXCEPT !.tts_done = @ + 1]]
            /\ cons' = [cons EXCEPT ![p].pc = "top"]
            /\ running' = Idle
       ELSE /\ run' = [run EXCEPT ![p] = r1]
            /\ cons' = [cons EXCEPT ![p].pc = "pre_tts", ![p].ch = item.ch, ![p].wr = "true"]
            /\ running' = ConsT(p)

\* One item taken from the queue, up to the pause check before the TTS stage.
ConsumerTake(p) ==
    LET r == run[p]
        item == Head(r.queue)
        r1 == [r EXCEPT !.queue = Tail(@)]
    IN
    /\ hist' = [hist EXCEPT ![p].deq =
                  IF item # Sentinel /\ ~r.cancel /\ item.ok
                     /\ CheckChapterUnboundRoles(p, item.ch) # {}
                  THEN @ \cup {item.ch} ELSE @]
    /\ IF item = Sentinel \/ r.cancel
       THEN /\ run' = [run EXCEPT ![p] = r1]
            /\ cons' = [cons EXCEPT ![p].pc = "done"]
            /\ running' = Idle
       ELSE IF ~item.ok
       THEN /\ run' = [run EXCEPT ![p] = [r1 EXCEPT !.tts_done = @ + 1]]
            /\ cons' = [cons EXCEPT ![p].pc = "top"]
            /\ running' = Idle
       ELSE IF WaitResumeEnter(r) = "wait"
       THEN /\ run' = [run EXCEPT ![p] = r1]
            /\ cons' = [cons EXCEPT ![p].pc = "wr_wait", ![p].ch = item.ch,
                                    ![p].woken = r.resume]
            /\ running' = Idle
       ELSE /\ run' = [run EXCEPT ![p] = r1]
            /\ cons' = [cons EXCEPT ![p].pc = "pre_tts", ![p].ch = item.ch, ![p].wr = "true"]
            /\ running' = ConsT(p)

\* Top of the consumer loop: the cancel check, then tts_queue.get().
ConsumerTop(p) ==
    /\ running = Idle
    /\ cons[p].pc = "top"
    /\ IF run[p].cancel
       THEN /\ cons' = [cons EXCEPT ![p].pc = "done"]
            /\ UNCHANGED <<run, running, hist>>
       ELSE IF run[p].queue = <<>>
       THEN /\ cons' = [cons EXCEPT ![p].pc = "get"]
            /\ UNCHANGED <<run, running, hist>>
       ELSE ConsumerTake(p)
    /\ UNCHANGED lines
    /\ CFrame

\* tts_queue.get() returns for a consumer that was parked on the empty queue.
ConsumerGot(p) ==
    /\ running = Idle
    /\ cons[p].pc = "get"
    /\ run[p].queue # <<>>
    /\ ConsumerTake(p)
    /\ UNCHANGED lines
    /\ CFrame

\* The consumer's pause wait is over.
ConsumerResumed(p) ==
    LET c == WaitResumeWake(run[p], cons[p]) IN
    /\ running = Idle
    /\ cons[p].pc = "wr_wait"
    /\ cons[p].woken
    /\ IF c.wr = "false"
       THEN /\ cons' = [cons EXCEPT ![p] = [c EXCEPT !.pc = "done"]]
            /\ UNCHANGED running
       ELSE /\ cons' = [cons EXCEPT ![p] = [c EXCEPT !.pc = "pre_tts"]]
            /\ running' = ConsT(p)
    /\ UNCHANGED <<run, lines, hist>>
    /\ CFrame

\* The unbound-role check of the consumer, then _autopilot_tts_single_chapter
\* begins: the lines with a role are fetched.
ValidLines(ls) == [k \in 1..Len(ls) |-> k]

\* The consumer starting the TTS stage of every chapter without the voice check.
ConsumerPreTts_NoVoiceCheck(p) ==
    LET c == cons[p] IN
    /\ running = ConsT(p)
    /\ c.pc = "pre_tts"
    /\ cons' = [cons EXCEPT ![p].pc = "line_top", ![p].wr = "none",
                            ![p].todo = ValidLines(lines[p][c.ch]),
                            ![p].has_failure = FALSE]
    /\ hist' = [hist EXCEPT ![p].tts = Append(@, c.ch)]
    /\ UNCHANGED <<run, running, lines>>
    /\ CFrame

ConsumerPreTts(p) ==
    LET c == cons[p] IN
    /\ running = ConsT(p)
    /\ c.pc = "pre_tts"
    /\ IF CheckChapterUnboundRoles(p, c.ch) # {}
       THEN /\ run' = [run EXCEPT ![p].tts_done = @ + 1]
            /\ cons' = [cons EXCEPT ![p].pc = "top", ![p].ch = 0, ![p].wr = "none"]
            /\ running' = Idle
            /\ UNCHANGED hist
       ELSE /\ cons' = [cons EXCEPT ![p].pc = "line_top", ![p].wr = "none",
                                    ![p].todo = ValidLines(lines[p][c.ch]),
                                    ![p].has_failure = FALSE]
            /\ hist' = [hist EXCEPT ![p].tts = Append(@, c.ch)]
            /\ UNCHANGED <<run, running>>
    /\ UNCHANGED lines
    /\ CFrame

\* _check_chapter_unbound_roles raises in the consumer, which has no handler
\* around the call: the consumer task ends with the exception.
ConsumerReadFails(p) ==
    /\ running = ConsT(p)
    /\ cons[p].pc = "pre_tts"
    /\ FALSE \in env.store
    /\ cons' = [cons EXCEPT ![p].pc = "crashed", ![p].ch = 0, ![p].wr = "none"]
    /\ running' = Idle
    /\ UNCHANGED <<run, lines, hist>>
    /\ CFrame

\* The line loop without the cancel check before each line.
TtsLineTop_NoCancelCheck(p) ==
    LET c == cons[p] IN
    /\ running = ConsT(p)
    /\ c.pc = "line_top"
    /\ IF c.todo = <<>>
       THEN /\ run' = [run EXCEPT ![p].tts_done = @ + 1]
            /\ cons' = [cons EXCEPT ![p].pc = "top", ![p].ch = 0, ![p].todo = <<>>,
                                    ![p].has_failure = FALSE]
            /\ hist' = [hist EXCEPT ![p].tts_end = Append(@, c.ch),
                                    ![p].tts_ok = Append(@, ~c.has_failure)]
            /\ running' = Idle
       ELSE IF voice[p][lines[p][c.ch][Head(c.todo)].role] = 0
       THEN /\ cons' = [cons EXCEPT ![p].todo = Tail(@)]
            /\ UNCHANGED <<run, running, hist>>
       ELSE /\ cons' = [cons EXCEPT ![p].pc = "synth"]
            /\ running' = Idle
            /\ UNCHANGED <<run, hist>>
    /\ UNCHANGED lines
    /\ CFrame

\* The line loop sending every line to the synthesis, bound voice or not.
TtsLineTop_NoVoiceCheck(p) ==
    LET c == cons[p] IN
    /\ running = ConsT(p)
    /\ c.pc = "line_top"
    /\ IF c.todo = <<>> \/ run[p].cancel
       THEN /\ run' = [run EXCEPT ![p].tts_done = @ + 1]
            /\ cons' = [cons EXCEPT ![p].pc = "top", ![p].ch = 0, ![p].todo = <<>>,
                                    ![p].has_failure = FALSE]
            /\ hist' = [hist EXCEPT ![p].tts_end = Append(@, c.ch),
                                    ![p].tts_ok = Append(@, c.todo = <<>> /\ ~c.has_failure)]
            /\ running' = Idle
       ELSE /\ cons' = [cons EXCEPT ![p].pc = "synth"]
            /\ running' = Idle
            /\ UNCHANGED <<run, hist>>
    /\ UNCHANGED lines
    /\ CFrame

\* Top of the line loop of the TTS stage: the cancel check, the role's voice,
\* then the synthesis call; after the last line the stage returns.
TtsLineTop(p) ==
    LET c == cons[p] IN
    /\ running = ConsT(p)
    /\ c.pc = "line_top"
    /\ IF c.todo = <<>> \/ run[p].cancel
       THEN /\ run' = [run EXCEPT ![p].tts_done = @ + 1]
            /\ cons' = [cons EXCEPT ![p].pc = "top", ![p].ch = 0, ![p].todo = <<>>,
                                    ![p].has_failure = FALSE]
            /\ hist' = [hist EXCEPT ![p].tts_end = Append(@, c.ch),
                                    ![p].tts_ok = Append(@, c.todo = <<>> /\ ~c.has_failure)]
            /\ running' = Idle
       ELSE IF voice[p][lines[p][c.ch][Head(c.todo)].role] = 0
       THEN /\ cons' = [cons EXCEPT ![p].todo = Tail(@)]
            /\ UNCHANGED <<run, running, hist>>
       ELSE /\ cons' = [cons EXCEPT ![p].pc = "synth"]
            /\ running' = Idle
            /\ UNCHANGED <<run, hist>>
    /\ UNCHANGED lines
    /\ CFrame

\* The line loop giving up the rest of the chapter when a line fails.
TtsLineResult_AbortsOnFailure(p) ==
    LET c == cons[p] IN
    /\ running = Idle
    /\ c.pc = "synth"
    /\ \E ok \in env.tts :
         /\ lines' = [lines EXCEPT ![p][c.ch][Head(c.todo)].status =
                                      IF ok THEN "done" ELSE "failed"]
         /\ cons' = [cons EXCEPT ![p].pc = "line_top",
                                 ![p].todo = IF ok THEN Tail(@) ELSE <<>>,
                                 ![p].has_failure = @ \/ ~ok]
    /\ running' = ConsT(p)
    /\ UNCHANGED <<run, hist>>
    /\ CFrame

\* generate_audio returns or raises: the line is marked done or failed.
TtsLineResult(p) ==
    LET c == cons[p] IN
    /\ running = Idle
    /\ c.pc = "synth"
    /\ \E ok \in env.tts :
         /\ lines' = [lines EXCEPT ![p][c.ch][Head(c.todo)].status =
                                      IF ok THEN "done" ELSE "failed"]
         /\ cons' = [cons EXCEPT ![p].pc = "line_top", ![p].todo = Tail(@),
                                 ![p].has_failure = @ \/ ~ok]
    /\ running' = ConsT(p)
    /\ UNCHANGED <<run, hist>>
    /\ CFrame

\* ------------------------------------------------------------ batch LLM run
NewBatch(req, id) ==
    [NoRun EXCEPT !.id = id, !.kind = "batch", !.n = req.n,
                  !.conc = Clamp(req.concurrency), !.mpc = "new"]

batch_llm_parse(req) ==
    LET p == req.project_id IN
    /\ running = Idle
    /\ IF batch_tasks[p] # 0
       THEN UNCHANGED <<batch_tasks, starts, live, run, wk>>
       ELSE /\ starts' = starts + 1
            /\ batch_tasks' = [batch_tasks EXCEPT ![p] = starts + 1]
            /\ live' = [live EXCEPT ![p] = @ + 1]
            /\ run' = [run EXCEPT ![p] = NewBatch(req, starts + 1)]
            /\ wk' = [wk EXCEPT ![p] = [i \in Chapters |-> NoWorker]]
    /\ UNCHANGED <<env, parse, tasks, cons, voice, lines, broadcast, running, hist>>

BatchStartResponse(req) ==
    IF batch_tasks[req.project_id] # 0
    THEN [op |-> "llm-parse", p |-> req.project_id, code |-> 400, data |-> <<>>]
    ELSE [op |-> "llm-parse", p |-> req.project_id, code |-> 200,
          data |-> <<req.n, Clamp(req.concurrency)>>]

\* cancel_event.set(): the watcher parked in cancel_event.wait() is woken.
batch_llm_cancel(p) ==
    /\ running = Idle
    /\ IF batch_tasks[p] = 0
       THEN UNCHANGED run
       ELSE run' = [run EXCEPT ![p].cancel = TRUE,
                               ![p].wpc = IF @ = "wait" THEN "woken" ELSE @]
    /\ UNCHANGED <<env, parse, tasks, batch_tasks, starts, live, wk, cons, voice, lines,
                   broadcast, running, hist>>

\* _do_batch_llm up to its gather: one _sem_wrapper task per chapter, then the watcher.
DoBatchStart(p) ==
    /\ running = Idle
    /\ run[p].kind = "batch"
    /\ run[p].mpc = "new"
    /\ run' = [run EXCEPT ![p].mpc = "gather", ![p].wpc = "new"]
    /\ wk' = [wk EXCEPT ![p] = [i \in Chapters |->
                IF i <= run[p].n THEN [NoWorker EXCEPT !.pc = "b_new"] ELSE NoWorker]]
    /\ UNCHANGED <<env, parse, tasks, batch_tasks, starts, live, cons, voice, lines, broadcast,
                   running, hist>>

\* The first step of _sem_wrapper: the cancel check, then the semaphore, then the
\* cancel check inside it.
SemWrapperStart(p, i) ==
    LET r == run[p] IN
    /\ running = Idle
    /\ wk[p][i].pc = "b_new"
    /\ \A j \in 1..(i - 1) : wk[p][j].pc # "b_new"
    /\ IF r.cancel
       THEN /\ wk' = [wk EXCEPT ![p][i].pc = "done"]
            /\ UNCHANGED <<run, running>>
       ELSE IF r.semHeld < r.conc /\ r.semQ = <<>>
       THEN /\ run' = [run EXCEPT ![p].semHeld = @ + 1]
            /\ wk' = [wk EXCEPT ![p][i].pc = "stage"]
            /\ running' = WorkT(p, i)
       ELSE /\ run' = [run EXCEPT ![p].semQ = Append(@, i)]
            /\ wk' = [wk EXCEPT ![p][i].pc = "sem_wait"]
            /\ UNCHANGED running
    /\ UNCHANGED <<voice, lines, broadcast, hist>>
    /\ WFrame

\* A wrapper that waited for its slot: the cancel check inside the semaphore.
SemWrapperEnter(p, i) ==
    LET r == run[p] IN
    /\ running = WorkT(p, i)
    /\ wk[p][i].pc = "b_sem_in"
    /\ IF r.cancel
       THEN /\ run' = [run EXCEPT ![p] = SemRelease(r)]
            /\ wk' = [wk EXCEPT ![p] = SemGrant([@ EXCEPT ![i].pc = "done"], r)]
            /\ running' = Idle
       ELSE /\ wk' = [wk EXCEPT ![p][i].pc = "stage"]
            /\ UNCHANGED <<run, running>>
    /\ UNCHANGED <<voice, lines, broadcast, hist>>
    /\ WFrame

\* _process_single_chapter_async has returned to the wrapper: asyncio.sleep(0.3).
SemWrapperSleep(p, i) ==
    /\ running = WorkT(p, i)
    /\ wk[p][i].pc = "llm_exit"
    /\ run[p].kind = "batch"
    /\ wk' = [wk EXCEPT ![p][i].pc = "b_sleep"]
    /\ running' = Idle
    /\ UNCHANGED <<run, voice, lines, broadcast, hist>>
    /\ WFrame

\* The sleep is over: the wrapper leaves the semaphore and ends.
SemWrapperEnd(p, i) ==
    LET r == run[p] IN
    /\ running = Idle
    /\ wk[p][i].pc = "b_sleep"
    /\ run' = [run EXCEPT ![p] = SemRelease(r)]
    /\ wk' = [wk EXCEPT ![p] = SemGrant([@ EXCEPT ![i].pc = "done"], r)]
    /\ UNCHANGED <<voice, lines, broadcast, hist, running>>
    /\ WFrame

\* t.cancel() for every task that is not done: CancelledError is thrown into the
\* task at the await it is suspended in, no handler of the task catches it, and
\* the task ends, leaving the semaphore on its way out.
CancelAll(ws) == [i \in Chapters |-> IF ws[i].pc \in {"none", "done"} THEN ws[i]
                                      ELSE [ws[i] EXCEPT !.pc = "done"]]

\* The first step of _cancel_watcher, which was created after the wrappers.
CancelWatcherStart(p) ==
    LET r == run[p] IN
    /\ running = Idle
    /\ r.wpc = "new"
    /\ \A i \in Chapters : wk[p][i].pc # "b_new"
    /\ IF r.cancel
       THEN /\ run' = [run EXCEPT ![p].wpc = "done", ![p].semHeld = 0, ![p].semQ = <<>>]
            /\ wk' = [wk EXCEPT ![p] = CancelAll(@)]
       ELSE /\ run' = [run EXCEPT ![p].wpc = "wait"]
            /\ UNCHANGED wk
    /\ UNCHANGED <<voice, lines, broadcast, hist, running>>
    /\ WFrame

\* cancel_event.wait() has returned in the watcher.
CancelWatcherFire(p) ==
    /\ running = Idle
    /\ run[p].wpc = "woken"
    /\ run' = [run EXCEPT ![p].wpc = "done", ![p].semHeld = 0, ![p].semQ = <<>>]
    /\ wk' = [wk EXCEPT ![p] = CancelAll(@)]
    /\ UNCHANGED <<voice, lines, broadcast, hist, running>>
    /\ WFrame

\* gather has returned: watcher.cancel() and the batch_llm_complete event.
DoBatchEnd(p) ==
    /\ running = Idle
    /\ run[p].kind = "batch"
    /\ run[p].mpc = "gather"
    /\ \A i \in 1..run[p].n : wk[p][i].pc = "done"
    /\ run' = [run EXCEPT ![p].mpc = "finished", ![p].wpc = "done",
                           ![p].summary = IF run[p].cancel THEN "cancelled" ELSE "completed"]
    /\ live' = [live EXCEPT ![p] = @ - 1]
    /\ UNCHANGED <<env, parse, tasks, batch_tasks, starts, wk, cons, voice, lines, broadcast,
                   running, hist>>

BatchStep(p) ==
    \/ DoBatchStart(p)
    \/ CancelWatcherStart(p)
    \/ CancelWatcherFire(p)
    \/ DoBatchEnd(p)
    \/ \E i \in Chapters :
          \/ SemWrapperStart(p, i)
          \/ SemWrapperEnter(p, i)
          \/ SemWrapperSleep(p, i)
          \/ SemWrapperEnd(p, i)

\* ------------------------------------------------------------ specification
WorkerStep(p, i) ==
    \/ WorkerStart(p, i)
    \/ WorkerResumed(p, i)
    \/ WorkerAcquire(p, i)
    \/ WorkerGranted(p, i)
    \/ WorkerEnter(p, i)
    \/ StageBegin(p, i)
    \/ SegmentTop(p, i)
    \/ AttemptTop(p, i)
    \/ LlmCallReturns(p, i)
    \/ BackoffOver(p, i)
    \/ Persist(p, i)
    \/ PersistSuspends(p, i)
    \/ PersistInsert(p, i)
    \/ LlmExit(p, i)
    \/ LockAcquire(p, i)
    \/ LockGranted(p, i)
    \/ VoiceMatchGate(p, i)
    \/ GateReadFails(p, i)
    \/ MatchCallReturns(p, i)
    \/ GateResumed(p, i)
    \/ GateExit(p, i)
    \/ WorkerEnd(p, i)

RunStep(p) ==
    \/ DoAutopilotStart(p)
    \/ LlmProducerStart(p)
    \/ LlmProducerEnd(p)
    \/ DoAutopilotEnd(p)
    \/ DoAutopilotCrash(p)
    \/ Cleanup(p)
    \/ CleanupCrashed(p)
    \/ ConsumerTop(p)
    \/ ConsumerGot(p)
    \/ ConsumerResumed(p)
    \/ ConsumerPreTts(p)
    \/ ConsumerReadFails(p)
    \/ TtsLineTop(p)
    \/ TtsLineResult(p)
    \/ \E i \in Chapters : WorkerStep(p, i)

\* The signals the client sends.
Signal(p) ==
    \/ "pause" \in env.signals /\ autopilot_pause(p)
    \/ "resume" \in env.signals /\ autopilot_resume(p)
    \/ "cancel" \in env.signals /\ autopilot_cancel(p)
    \/ "cancel" \in env.signals /\ batch_llm_cancel(p)

User(p) == \E ro \in Roles, v \in env.user : update_role(p, ro, v)

Next ==
    \/ \E req \in env.reqs :
          /\ tasks[req.project_id] # 0 \/ starts < env.runs
          /\ autopilot_start(req)
    \/ \E p \in Projects : Signal(p)
    \/ \E req \in env.breqs :
          /\ batch_tasks[req.project_id] # 0 \/ starts < env.runs
          /\ batch_llm_parse(req)
    \/ \E p \in Projects : RunStep(p)
    \/ \E p \in Projects : BatchStep(p)
    \/ \E p \in Started : User(p)

Spec == Init /\ [][Next]_vars

\* The event loop runs every task that is ready, and every LLM call, TTS call
\* and sleep in flight ends; the clients are under no obligation.
FairSpec ==
    Spec /\ \A p \in Projects : WF_vars(RunStep(p)) /\ WF_vars(BatchStep(p))

\* -------------------------------------------------- one segment parse
\* str.strip(): blanks and line breaks at both ends are removed.
RECURSIVE LStrip(_)
LStrip(s) == IF s # <<>> /\ Head(s) \in {" ", "\n"} THEN LStrip(Tail(s)) ELSE s

RECURSIVE RStrip(_)
RStrip(s) ==
    IF s # <<>> /\ s[Len(s)] \in {" ", "\n"} THEN RStrip(SubSeq(s, 1, Len(s) - 1)) ELSE s

Strip(s) == RStrip(LStrip(s))

\* content.split("\n"): the pieces between the line breaks; cur is the piece
\* being read.
RECURSIVE SplitLines(_, _)
SplitLines(s, cur) ==
    IF s = <<>> THEN <<cur>>
    ELSE IF Head(s) = "\n" THEN <<cur>> \o SplitLines(Tail(s), <<>>)
    ELSE SplitLines(Tail(s), Append(cur, Head(s)))

\* "\n".join(pieces)
RECURSIVE JoinLines(_)
JoinLines(ps) ==
    IF ps = <<>> THEN <<>>
    ELSE IF Len(ps) = 1 THEN ps[1]
    ELSE ps[1] \o <<"\n">> \o JoinLines(Tail(ps))

\* re.findall of "characters that end no sentence, then one that does": the
\* sentences in order; what follows the last end character matches nothing.
RECURSIVE FindSentences(_, _)
FindSentences(s, cur) ==
    IF s = <<>> THEN <<>>
    ELSE IF Head(s) \in {".", ",", "\n"}
    THEN <<Append(cur, Head(s))>> \o FindSentences(Tail(s), <<>>)
    ELSE FindSentences(Tail(s), Append(cur, Head(s)))

\* The grouping loop: a sentence joins the buffer while the two fit in max,
\* else the buffer is closed (stripped) and the sentence starts the next one.
RECURSIVE GroupSentences(_, _, _)
GroupSentences(sentences, buffer, max) ==
    LET closed == IF buffer # <<>> THEN <<Strip(buffer)>> ELSE <<>>
    IN IF sentences = <<>> THEN closed
       ELSE IF Len(buffer) + Len(Head(sentences)) <= max
       THEN GroupSentences(Tail(sentences), buffer \o Head(sentences), max)
       ELSE closed \o GroupSentences(Tail(sentences), Head(sentences), max)

\* split_text without the full stop added to a text that does not end a sentence.
split_text_NoTerminator(content, max) ==
    LET kept == JoinLines(SelectSeq(SplitLines(content, <<>>), LAMBDA l : Strip(l) # <<>>))
    IN GroupSentences(FindSentences(kept, <<>>), <<>>, max)

\* split_text: blank lines are removed, a text that does not end with a
\* sentence end gets a full stop, the sentences are grouped.
split_text(content, max) ==
    LET kept == JoinLines(SelectSeq(SplitLines(content, <<>>), LAMBDA l : Strip(l) # <<>>))
        ended == IF kept # <<>> /\ kept[Len(kept)] = "." THEN kept ELSE Append(kept, ".")
    IN GroupSentences(FindSentences(ended, <<>>), <<>>, max)

\* (x or ""): a missing, null or empty value reads as the empty string.
OrEmpty(v) == IF v = None THEN <<>> ELSE v

\* a in b for two strings.
InStr(a, b) == \E k \in 0 .. (Len(b) - Len(a)) : SubSeq(b, k + 1, k + Len(a)) = a

NameSet(names) == {names[k] : k \in 1 .. Len(names)}

NamesOf(table) == [k \in 1 .. Len(table) |-> table[k].name]

\* The items whose speaker is not the narrator and whose emotion or strength
\* is not in the sets, with their 0-based index.
find_invalid_emotions(parsed_data, emotion_set, strength_set) ==
    LET bad == SelectSeq([k \in 1 .. Len(parsed_data) |-> k],
                         LAMBDA k : /\ parsed_data[k].role_name # Narrator
                                    /\ \/ parsed_data[k].emotion_name \notin emotion_set
                                       \/ parsed_data[k].strength_name \notin strength_set)
    IN [j \in 1 .. Len(bad) |-> [index |-> bad[j] - 1,
                                 emotion_name |-> parsed_data[bad[j]].emotion_name,
                                 strength_name |-> parsed_data[bad[j]].strength_name]]

\* The corrections of the repair call applied in order: a correction whose
\* index is in range sets the emotion and the strength of that line, to the
\* given value when it is in the set and to the default otherwise.
RECURSIVE ApplyFix(_, _, _, _)
ApplyFix(parsed_data, fix_data, emotion_set, strength_set) ==
    IF fix_data = <<>> THEN parsed_data
    ELSE LET f == Head(fix_data)
             k == f.index + 1
             pd == IF 0 <= f.index /\ f.index < Len(parsed_data)
                   THEN [parsed_data EXCEPT
                           ![k].emotion_name = IF f.emotion_name \in emotion_set
                                               THEN f.emotion_name ELSE default_emotion,
                           ![k].strength_name = IF f.strength_name \in strength_set
                                                THEN f.strength_name ELSE default_strength]
                   ELSE parsed_data
         IN ApplyFix(pd, Tail(fix_data), emotion_set, strength_set)

\* The fallback after an empty answer or an exception: every item found
\* invalid gets the default where its value was outside the set.
RECURSIVE Fallback(_, _, _, _)
Fallback(parsed_data, invalid_items, emotion_set, strength_set) ==
    IF invalid_items = <<>> THEN parsed_data
    ELSE LET item == Head(invalid_items)
             k == item.index + 1
             pd == [parsed_data EXCEPT
                      ![k].emotion_name = IF item.emotion_name \notin emotion_set
                                          THEN default_emotion ELSE @,
                      ![k].strength_name = IF item.strength_name \notin strength_set
                                           THEN default_strength ELSE @]
         IN Fallback(pd, Tail(invalid_items), emotion_set, strength_set)

\* The validation block without the fallback: a repair call that failed leaves
\* the lines as they are.
RepairEmotions_NoFallback(parsed_data, emotion_names, strength_names, fix) ==
    LET emotion_set == NameSet(emotion_names)
        strength_set == NameSet(strength_names)
        invalid_items == find_invalid_emotions(parsed_data, emotion_set, strength_set)
    IN IF emotion_set = {} \/ strength_set = {} \/ invalid_items = <<>>
       THEN parsed_data
       ELSE IF fix.raised
       THEN ApplyFix(parsed_data, fix.data, emotion_set, strength_set)
       ELSE IF fix.data # <<>>
       THEN ApplyFix(parsed_data, fix.data, emotion_set, strength_set)
       ELSE parsed_data

\* The validation block of para_content_async: skipped when either set is
\* empty or nothing is invalid, else one repair call and its outcome.
RepairEmotions(parsed_data, emotion_names, strength_names, fix) ==
    LET emotion_set == NameSet(emotion_names)
        strength_set == NameSet(strength_names)
        invalid_items == find_invalid_emotions(parsed_data, emotion_set, strength_set)
    IN IF emotion_set = {} \/ strength_set = {} \/ invalid_items = <<>>
       THEN parsed_data
       ELSE IF fix.raised
       THEN Fallback(ApplyFix(parsed_data, fix.data, emotion_set, strength_set),
                     invalid_items, emotion_set, strength_set)
       ELSE IF fix.data # <<>>
       THEN ApplyFix(parsed_data, fix.data, emotion_set, strength_set)
       ELSE Fallback(parsed_data, invalid_items, emotion_set, strength_set)

\* The last pass: a stripped value that is empty or outside the list becomes
\* the default, any other is written back stripped.
sanitize_emotions(parsed_data, emotion_names, strength_names) ==
    LET emotion_set == NameSet(emotion_names)
        strength_set == NameSet(strength_names)
    IN [k \in 1 .. Len(parsed_data) |->
          LET emo == Strip(OrEmpty(parsed_data[k].emotion_name))
              stg == Strip(OrEmpty(parsed_data[k].strength_name))
          IN [parsed_data[k] EXCEPT
                !.emotion_name = IF emo = <<>> \/ emo \notin emotion_set
                                 THEN default_emotion ELSE emo,
                !.strength_name = IF stg = <<>> \/ stg \notin strength_set
                                  THEN default_strength ELSE stg]]

\* name_dict.get(key): the id of the row with that name, 0 for None.
DictGet(name_dict, key) ==
    IF \E k \in 1 .. Len(name_dict) : name_dict[k].name = key
    THEN name_dict[CHOOSE k \in 1 .. Len(name_dict) : name_dict[k].name = key].id
    ELSE 0

\* The id for a name: the exact name, the stripped name, the first key that
\* contains the stripped name or is contained in it, the default key; 0 for None.
fuzzy_match_dict(name, name_dict, default_key) ==
    LET stripped == Strip(name)
        near == {k \in 1 .. Len(name_dict) :
                    InStr(name_dict[k].name, stripped) \/ InStr(stripped, name_dict[k].name)}
    IN IF name = <<>> \/ name = None THEN DictGet(name_dict, default_key)
       ELSE IF DictGet(name_dict, name) # 0 THEN DictGet(name_dict, name)
       ELSE IF DictGet(name_dict, stripped) # 0 THEN DictGet(name_dict, stripped)
       ELSE IF near # {} THEN name_dict[CHOOSE k \in near : \A j \in near : k <= j].id
       ELSE DictGet(name_dict, default_key)

\* A row of the line table for the index-th line.
add_new_line(line, index, emotions_dict, strengths_dict) ==
    [line_order |-> index + 1,
     emotion_id |-> fuzzy_match_dict(line.emotion_name, emotions_dict, default_emotion),
     strength_id |-> fuzzy_match_dict(line.strength_name, strengths_dict, default_strength)]

PFrame == UNCHANGED <<tasks, batch_tasks, starts, live, run, wk, cons, voice, lines,
                      broadcast, running, env, hist>>

\* POST /emotions: a row with a new id, unless the name is taken.
create_emotion(name) ==
    /\ parse.edits < MaxEdits
    /\ parse' = IF DictGet(parse.emotions, name) # 0
                THEN [parse EXCEPT !.edits = @ + 1]
                ELSE [parse EXCEPT !.edits = @ + 1, !.next_id = @ + 1,
                                   !.emotions = Append(@, [id |-> parse.next_id, name |-> name])]
    /\ PFrame

\* PUT /emotions/{id}: the row gets the name, unless there is no such row or
\* another row has the name.
update_emotion(id, name) ==
    /\ parse.edits < MaxEdits
    /\ parse' = IF \/ \A k \in 1 .. Len(parse.emotions) : parse.emotions[k].id # id
                   \/ DictGet(parse.emotions, name) # 0
                THEN [parse EXCEPT !.edits = @ + 1]
                ELSE [parse EXCEPT !.edits = @ + 1,
                                   !.emotions = [k \in 1 .. Len(@) |->
                                                    IF @[k].id = id
                                                    THEN [@[k] EXCEPT !.name = name]
                                                    ELSE @[k]]]
    /\ PFrame

\* DELETE /emotions/{id}: the row is removed.
delete_emotion(id) ==
    /\ parse.edits < MaxEdits
    /\ parse' = [parse EXCEPT !.edits = @ + 1,
                              !.emotions = SelectSeq(@, LAMBDA row : row.id # id)]
    /\ PFrame

\* A time is a whole number of units of 2^-MantissaBits seconds.  The float
\* nearest to x, ties to the even mantissa: x itself when it has no more than
\* MantissaBits significant bits.
RoundFloat(x) ==
    LET len == CHOOSE e \in 0 .. 4 * MantissaBits : x < 2 ^ e /\ (e = 0 \/ 2 ^ (e - 1) <= x)
        q == IF len > MantissaBits THEN 2 ^ (len - MantissaBits) ELSE 1
        lo == (x \div q) * q
    IN IF 2 * (x - lo) < q THEN lo
       ELSE IF 2 * (x - lo) > q THEN lo + q
       ELSE IF (lo \div q) % 2 = 0 THEN lo ELSE lo + q

\* The delay of a rate-limited attempt with 15 replaced by 30.
RateLimitDelay_FromThirty(attempt, k) ==
    RoundFloat(Min(30 * (2 ^ attempt), 120) * (2 ^ MantissaBits)
               + RoundFloat(2 ^ MantissaBits + 4 * k))

\* min(15 * (2**attempt), 120) + random.uniform(1, 5), where uniform(a, b) is
\* a + (b - a) * random() and random() is k / 2^MantissaBits.
RateLimitDelay(attempt, k) ==
    RoundFloat(Min(15 * (2 ^ attempt), 120) * (2 ^ MantissaBits)
               + RoundFloat(2 ^ MantissaBits + 4 * k))

\* generate_text_async: the call of an attempt that is not the last raises; the
\* coroutine sleeps, by the rate-limit delay when the error is one of
\* rate limiting and by delay * (2**attempt) + random() otherwise.
LlmCallFails ==
    /\ parse.pc = "call"
    /\ parse.attempt < retries - 1
    /\ \E limited \in BOOLEAN, k \in 0 .. 2 ^ MantissaBits - 1 :
          parse' = [parse EXCEPT
                      !.pc = "backoff", !.attempt = @ + 1,
                      !.sleep = [site |-> "engine", limited |-> limited, n |-> parse.attempt,
                                 time |-> IF limited
                                          THEN RateLimitDelay(parse.attempt, k)
                                          ELSE RoundFloat((2 ^ parse.attempt) * (2 ^ MantissaBits) + k)]]
    /\ PFrame

\* para_content_async returns a failure (the test call or the last attempt
\* raised, or the answer is no list of lines): the stage sleeps and tries the
\* segment again when the message is one of rate limiting and tries are left,
\* and gives the chapter up otherwise.
SegmentFails ==
    /\ parse.pc = "call"
    /\ \E limited \in BOOLEAN, k \in 0 .. 2 ^ MantissaBits - 1 :
          parse' = IF limited /\ parse.retry_idx < MAX_SEG_RETRIES - 1
                   THEN [parse EXCEPT
                           !.pc = "backoff", !.attempt = 0, !.retry_idx = @ + 1,
                           !.sleep = [site |-> "stage", limited |-> TRUE, n |-> parse.retry_idx,
                                      time |-> RateLimitDelay(parse.retry_idx, k)]]
                   ELSE [parse EXCEPT !.pc = "failed"]
    /\ PFrame

\* asyncio.sleep returns: the next attempt.
SleepOver ==
    /\ parse.pc = "backoff"
    /\ parse' = [parse EXCEPT !.pc = "call", !.sleep = NoSleep]
    /\ PFrame

\* The stage splits the text of the chapter into segments.
SplitText ==
    /\ parse.pc = "idle"
    /\ \E content \in ChapterTexts :
          parse' = [parse EXCEPT !.pc = "split", !.text = content,
                                 !.contents = split_text(content, max_length)]
    /\ PFrame

\* The stage reads the emotions and the strengths once for the chapter; the
\* model follows the parse of one segment, whatever its text.
GetVocabulary ==
    /\ parse.pc = "split"
    /\ parse' = [parse EXCEPT !.pc = "call", !.text = <<>>, !.contents = <<>>,
                              !.emotion_names = NamesOf(parse.emotions),
                              !.strength_names = NamesOf(SeedStrengths),
                              !.emotions_dict = parse.emotions,
                              !.strengths_dict = SeedStrengths]
    /\ PFrame

\* para_content_async from the answer of the LLM to its return value: the
\* validation with its repair call, the sanitation, the DTOs.
para_content_async ==
    /\ parse.pc = "call"
    /\ \E out \in LlmOutputs, fix \in FixResults :
          LET repaired == RepairEmotions(out, parse.emotion_names, parse.strength_names, fix)
          IN parse' = [parse EXCEPT
                         !.pc = "parsed", !.attempt = 0, !.retry_idx = 0,
                         !.parsed_data = out,
                         !.line_dtos = sanitize_emotions(repaired, parse.emotion_names,
                                                         parse.strength_names)]
    /\ PFrame

\* update_init_lines: one row per line, in order.
update_init_lines ==
    /\ parse.pc = "parsed"
    /\ parse' = [parse EXCEPT
                   !.pc = "written",
                   !.rows = [k \in 1 .. Len(parse.line_dtos) |->
                               add_new_line(parse.line_dtos[k], k - 1,
                                            parse.emotions_dict, parse.strengths_dict)]]
    /\ PFrame

ParseNext ==
    \/ \E name \in EmotionNames : create_emotion(name)
    \/ \E id \in 1 .. Len(SeedEmotions) + MaxEdits, name \in EmotionNames : update_emotion(id, name)
    \/ \E id \in 1 .. Len(SeedEmotions) + MaxEdits : delete_emotion(id)
    \/ SplitText
    \/ GetVocabulary
    \/ LlmCallFails
    \/ SegmentFails
    \/ SleepOver
    \/ para_content_async
    \/ update_init_lines

\* The split of one chapter, one segment parse and its write, with clients
\* that change the emotion table; no run is started.
ParseInit == Init /\ env = Repeated

ParseSpec == ParseInit /\ [][ParseNext]_vars

\* ------------------------------------------------------------------ claims
Waits == {"wr_wait", "gate_wait"}

\* The n-th place of chapter c in a sequence of chapters (0: not in it).
Place(seq, c) == IF \E k \in 1..Len(seq) : seq[k] = c
                 THEN CHOOSE k \in 1..Len(seq) : seq[k] = c ELSE 0

\* C1: at most one autopilot run is registered per project.  While a project has
\* an entry in the registry a start request for it is answered with a rejection,
\* at most one _do_autopilot task of the project is alive, and the registered
\* signals stay the ones of the run that registered them.
C1_AtMostOneRun ==
    [][\A p \in Projects :
         /\ live'[p] <= 1
         /\ tasks[p] # 0 =>
              /\ \A req \in env.reqs : req.project_id = p => StartResponse(req).code = 400
              /\ tasks'[p] \in {0, tasks[p]}
              /\ tasks'[p] # 0 => run'[p].id = run[p].id]_vars

\* A run is registered, its pipeline is running, and a start request for the
\* project would be rejected.
C1_Witness ==
    \E p \in Projects :
       /\ tasks[p] # 0 /\ live[p] = 1 /\ run[p].ppc = "gather"
       /\ \E req \in env.reqs : req.project_id = p /\ StartResponse(req).code = 400

\* C2: under a concurrency above one, the flag a chapter is put on the queue
\* with is the outcome of the chapter's own LLM stage: true exactly when that
\* stage persisted the lines and emitted done.
C2_FlagIsOwnOutcome ==
    \A p \in Projects :
       run[p].conc > 1 =>
          \A k \in 1..Len(run[p].queue) :
             LET item == run[p].queue[k] IN
             item # Sentinel => (item.ok <=> wk[p][item.ch].status = "done")

\* C3: once cancel is set, no worker enters the LLM stage and the consumer enters
\* no TTS stage, whatever pause, resume or cancel calls follow.
C3_NothingBeginsAfterCancel ==
    [][\A p \in Projects :
         run[p].cancel =>
            /\ \A i \in Chapters : wk'[p][i].pc = "stage" => wk[p][i].pc = "stage"
            /\ ~(cons[p].pc = "pre_tts" /\ cons'[p].pc = "line_top")
            /\ cons'[p].pc = "synth" => cons[p].pc = "synth"]_vars

\* Cancel is set while a worker of the run that has not begun its LLM stage
\* waits for a slot of the semaphore.
C3_Witness ==
    \E p \in Projects :
       /\ run[p].cancel
       /\ \E i \in Chapters : wk[p][i].pc \in {"sem_wait", "sem_granted"}

\* C4: when a cancelled autopilot run has emitted its summary, llm_done plus the
\* number of chapters whose LLM stage was never started is the number of chapters.
C4_SummaryCountsStarted ==
    \A p \in Projects :
       run[p].kind = "autopilot" /\ run[p].mpc = "finished" /\ run[p].cancel =>
          run[p].llm_done
            + Cardinality({i \in 1..run[p].n : wk[p][i].status = "none"}) = run[p].n

\* C5: a unit of work in flight is never interrupted: a task suspended in an LLM
\* segment call leaves the call only by the call returning (to the next segment,
\* to the backoff, or to the end of the loop), and the consumer suspended in a
\* line synthesis leaves it only by the synthesis returning, in an autopilot run
\* and in a batch LLM run alike.
C5_InFlightRunsToCompletion ==
    [][\A p \in Projects :
         /\ \A i \in Chapters :
               wk[p][i].pc = "llm_call"
               => wk'[p][i].pc \in {"llm_call", "seg_top", "seg_sleep", "persist"}
         /\ cons[p].pc = "synth" => cons'[p].pc \in {"synth", "line_top"}]_vars

\* C6: while pause is set and cancel is not, no worker enters the LLM stage and
\* the consumer enters no TTS stage.
C6_PausedStartsNothing ==
    [][\A p \in Projects :
         run[p].pause /\ ~run[p].cancel =>
            /\ \A i \in Chapters : wk'[p][i].pc = "stage" => wk[p][i].pc = "stage"
            /\ ~(cons[p].pc = "pre_tts" /\ cons'[p].pc = "line_top")]_vars

\* C7: of two chapters whose LLM stages both succeeded, the one whose stage
\* returned first is put on the queue (and so taken by the consumer) first.
C7_ConsumedInCompletionOrder ==
    \A p \in Projects : \A a, b \in Chapters :
       LET h == hist[p] IN
       /\ Place(h.fin, a) # 0 /\ Place(h.fin, a) < Place(h.fin, b)
       /\ Place(h.put, a) # 0 /\ Place(h.put, b) # 0
       => Place(h.put, a) < Place(h.put, b)

\* C8: when the gate is evaluated for a chapter with the interval reached and a
\* role of the chapter has no voice, a voice_needed or voice_matched event has
\* been emitted by the time the TTS stage of the chapter begins.
C8_VoiceEventBeforeTts ==
    \A p \in Projects :
       cons[p].pc \in {"line_top", "synth"} /\ cons[p].ch \in hist[p].fired
       => hist[p].needed \cup hist[p].matched # {}

\* C9 as stated: while the gate is parked for a chapter, the consumer is not
\* parked in the pause wait with another chapter it has taken from the queue and
\* whose roles all have a voice.
C9_QueuedChapterNotHeld ==
    \A p \in Projects :
       "pause" \notin env.signals =>
          ~ \E i \in Chapters :
               /\ wk[p][i].pc = "gate_wait" /\ ~wk[p][i].woken
               /\ cons[p].pc = "wr_wait" /\ ~cons[p].woken /\ cons[p].ch # i
               /\ CheckChapterUnboundRoles(p, cons[p].ch) = {}

\* C9, amended: while the gate is parked, a TTS stage in progress goes on from
\* line to line without a pause wait, but a successfully parsed chapter the
\* consumer takes from the queue is held at the pause check.
C9_GateHoldsQueuedChapter ==
    [][\A p \in Projects :
         (run[p].pause /\ ~run[p].cancel /\ \E i \in Chapters : wk[p][i].pc = "gate_wait")
         => /\ cons[p].pc \in {"top", "get"} => cons'[p].pc # "pre_tts"
            /\ cons[p].pc \in {"line_top", "synth"} => cons'[p].pc # "wr_wait"]_vars

\* The gate is parked for one chapter with the pause it has set, and the
\* consumer has taken another chapter from the queue and waits at the pause check.
C9_Witness ==
    \E p \in Projects : \E i \in Chapters :
       /\ run[p].pause /\ ~run[p].cancel /\ wk[p][i].pc = "gate_wait"
       /\ cons[p].pc = "wr_wait" /\ cons[p].ch \notin {0, i}

\* C10: cancel sets the cancel and the resume signal and wakes every task parked
\* in a pause wait; a task that leaves a pause wait while cancel is set returns
\* False and emits no resumed event.
C10_CancelWakesAndStops ==
    [][\A p \in Projects :
         run[p].kind = "autopilot" =>
         /\ (~run[p].cancel /\ run'[p].cancel) =>
               /\ run'[p].resume
               /\ \A i \in Chapters : wk[p][i].pc \in Waits => wk'[p][i].woken
               /\ cons[p].pc \in Waits => cons'[p].woken
         /\ run[p].cancel =>
               /\ \A i \in Chapters :
                     wk[p][i].pc \in Waits /\ wk'[p][i].pc \notin Waits
                     => wk'[p][i].wr = "false"
               /\ cons[p].pc \in Waits /\ cons'[p].pc \notin Waits
                  => cons'[p].wr = "false"]_vars

\* Cancel has woken a worker parked in a pause wait and the consumer parked in
\* its pause wait.
C10_Witness ==
    \E p \in Projects :
       /\ run[p].cancel
       /\ \E i \in Chapters : wk[p][i].pc \in Waits /\ wk[p][i].woken
       /\ cons[p].pc \in Waits /\ cons[p].woken

\* C11: a cancelled autopilot run, in whatever state cancel found it, emits its
\* summary with the cancelled flag and is then removed from the registry.
C11_CancelledRunEnds ==
    \A p \in Projects :
       /\ (run[p].kind = "autopilot" /\ run[p].cancel /\ run[p].mpc # "finished")
             ~> (run[p].summary = "cancelled")
       /\ (run[p].kind = "autopilot" /\ run[p].summary = "cancelled") ~> (tasks[p] = 0)

\* Cancel has found a worker parked in the gate, another queued for the lock
\* and the consumer blocked on the empty queue.
C11_Witness ==
    \E p \in Projects :
       /\ run[p].cancel /\ run[p].kind = "autopilot"
       /\ \E i, j \in Chapters : wk[p][i].pc = "gate_wait" /\ wk[p][j].pc = "lock_wait"
       /\ cons[p].pc = "get"

\* C12: once an autopilot run has emitted its final summary, a start request
\* for the project is accepted.
C12_StartAcceptedAfterSummary ==
    \A p \in Projects :
       run[p].kind = "autopilot" /\ run[p].summary # "none" =>
          \A req \in env.reqs : req.project_id = p => StartResponse(req).code = 200

\* C13: once cancel is set, a worker of the pipeline that has not begun its LLM
\* stage and waits for a concurrency slot leaves the wait only by being
\* terminated, never by being handed the slot that an in-flight worker releases.
C13_QueuedWorkerEndsAtOnce ==
    [][\A p \in Projects : \A i \in Chapters :
         run[p].kind = "autopilot" /\ run[p].cancel /\ wk[p][i].pc = "sem_wait"
         => wk'[p][i].pc \in {"sem_wait", "done"}]_vars

\* C14: the cancel signal is monotonic: no endpoint, gate or pipeline step
\* clears it for as long as the run exists.
C14_CancelIsMonotonic ==
    [][\A p \in Projects :
         run[p].cancel /\ run'[p].id = run[p].id => run'[p].cancel]_vars

\* Cancel is set and a pause was signalled after it (cancel had set resume).
C14_Witness ==
    \E p \in Projects :
       run[p].kind = "autopilot" /\ run[p].cancel /\ run[p].pause /\ ~run[p].resume

\* C15: while cancel is not set, the resume signal of an autopilot run is the
\* complement of its pause signal.
C15_ResumeIsComplementOfPause ==
    \A p \in Projects :
       run[p].kind = "autopilot" /\ ~run[p].cancel => (run[p].pause <=> ~run[p].resume)

\* The run has been paused by the client or by the gate and then resumed, and
\* is paused again with a task parked in the pause wait.
C15_Witness ==
    \E p \in Projects :
       /\ run[p].kind = "autopilot" /\ ~run[p].cancel /\ run[p].pause
       /\ \/ \E i \in Chapters : wk[p][i].pc \in Waits /\ wk[p][i].woken
          \/ cons[p].pc \in Waits /\ cons[p].woken

\* C16: for a project with no registered run, pause, resume and cancel answer
\* not-found and can change nothing (no registry entry, no signal of this or of
\* another project), and status answers not-running.
C16_NoRunNoEffect ==
    \A p \in Projects :
       tasks[p] = 0 =>
          /\ \A op \in {"pause", "resume", "cancel"} : ControlResponse(op, p).code = 404
          /\ StatusResponse(p).data = <<FALSE>>
          /\ ~ENABLED <<autopilot_pause(p) \/ autopilot_resume(p) \/ autopilot_cancel(p)>>_vars

\* One project has a run that is paused, another project has none.
C16_Witness ==
    \E p, q \in Projects :
       /\ tasks[p] # 0 /\ run[p].pause /\ ~run[p].cancel
       /\ tasks[q] = 0 /\ ControlResponse("resume", q).code = 404

C18_EveryChapterForwardedOnce ==
    \A p \in Projects :
       run[p].kind = "autopilot" /\ run[p].summary = "completed" =>
          /\ run[p].llm_done = run[p].n
          /\ run[p].tts_done = run[p].n
          /\ Len(hist[p].put) = run[p].n
          /\ \A i \in 1..run[p].n : \E k \in 1..Len(hist[p].put) : hist[p].put[k] = i

\* A run has completed in which the LLM stage of a chapter failed or was skipped.
C18_Witness ==
    \E p \in Projects :
       /\ run[p].kind = "autopilot" /\ run[p].summary = "completed" /\ run[p].n >= 1
       /\ \E i \in 1..run[p].n : wk[p][i].status \in {"error", "skipped"}

\* C19: when the LLM stage of a chapter that already has persisted lines ends
\* with status done, the persisted lines of the chapter are exactly the lines
\* of this run: the lines of the earlier run are gone, and the line count is
\* this run's output count, never the sum.
C19_ReparseReplacesLines ==
    \A p \in Projects : \A i \in Chapters :
        (wk[p][i].pc = "llm_exit" /\ wk[p][i].status = "done")
            => /\ lines[p][i] = NewLines(wk[p][i].acc)
               /\ Len(lines[p][i]) = Len(wk[p][i].acc)

\* The second run of a project has parsed again the chapter the first run had
\* parsed, and has written its one line.
C19_Witness ==
    \E p \in Projects :
        /\ run[p].kind = "autopilot"
        /\ starts = 2
        /\ env.outs = {<<1>>, <<1, 2>>}
        /\ wk[p][1].pc = "llm_exit"
        /\ wk[p][1].status = "done"
        /\ Len(wk[p][1].acc) = 1
        /\ lines[p][1] = NewLines(wk[p][1].acc)

\* C20: every line a successful segment parse returns has its emotion_name
\* among the emotion names the parse was given and its strength_name among the
\* strength names, whatever the LLM gave for the line and whatever the repair
\* call returned.
C20_LinesWithinVocabulary ==
    parse.pc \in {"parsed", "written"} =>
        \A k \in 1 .. Len(parse.line_dtos) :
            /\ parse.line_dtos[k].emotion_name \in NameSet(parse.emotion_names)
            /\ parse.line_dtos[k].strength_name \in NameSet(parse.strength_names)

\* A text without its blanks and line breaks.
Squeeze(s) == SelectSeq(s, LAMBDA c : c \notin {" ", "\n"})

\* The segments one after the other.
RECURSIVE Flatten(_)
Flatten(chunks) == IF chunks = <<>> THEN <<>> ELSE Head(chunks) \o Flatten(Tail(chunks))

\* C21: the segments split_text returns, read one after the other without
\* blanks and line breaks, are the text of the chapter without blanks and line
\* breaks, followed by one full stop when the text does not end with a sentence
\* end; nothing is dropped.  A segment is longer than the maximum only when it
\* is a single sentence (no sentence end or comma before its last character).
C21_SplitKeepsTheText ==
    parse.pc = "split" =>
        LET orig == Squeeze(parse.text)
            out == Squeeze(Flatten(parse.contents))
        IN /\ out \in {orig, Append(orig, ".")}
           /\ (orig = <<>> \/ orig[Len(orig)] # ".") => out = Append(orig, ".")
           /\ \A k \in 1 .. Len(parse.contents) :
                  LET chunk == parse.contents[k]
                  IN \/ Len(chunk) <= max_length
                     \/ \A j \in 1 .. Len(chunk) - 1 : chunk[j] \notin {".", ",", "\n"}

\* A text that ends without a sentence end has been split into more than one
\* segment, one of them a single sentence longer than the maximum.
C21_Witness ==
    /\ parse.pc = "split"
    /\ parse.text[Len(parse.text)] = "a"
    /\ Len(parse.contents) > 1
    /\ \E k \in 1 .. Len(parse.contents) : Len(parse.contents[k]) > max_length

\* C22 as amended: the delay computed for a rate-limited attempt n is at least
\* every delay that attempt n - 1 or an earlier one can be given, and is never
\* more than 120 + 5 seconds; for attempt 0 it lies in [16, 20] and for
\* attempt 3 in [121, 125], both ends included.
C22_RateLimitDelayBounds ==
    (parse.pc = "backoff" /\ parse.sleep.limited) =>
        LET second == 2 ^ MantissaBits
            d == parse.sleep.time
            n == parse.sleep.n
        IN /\ \A m \in 0 .. n - 1 : \A k \in 0 .. second - 1 : RateLimitDelay(m, k) <= d
           /\ d <= (120 + 5) * second
           /\ n = 0 => 16 * second <= d /\ d <= 20 * second
           /\ n = 3 => 121 * second <= d /\ d <= 125 * second

\* C22: the delay computed for a rate-limited attempt n is non-decreasing in n
\* and never more than 120 + 5 seconds; for attempt 0 it lies in [15, 20) and
\* for attempt 3 in [120, 125).
C22_HalfOpenIntervals ==
    (parse.pc = "backoff" /\ parse.sleep.limited) =>
        LET second == 2 ^ MantissaBits
            d == parse.sleep.time
            n == parse.sleep.n
        IN /\ \A m \in 0 .. n - 1 : \A k \in 0 .. second - 1 : RateLimitDelay(m, k) <= d
           /\ d <= (120 + 5) * second
           /\ n = 0 => 15 * second <= d /\ d < 20 * second
           /\ n = 3 => 120 * second <= d /\ d < 125 * second

\* The fourth attempt of a call was rate limited and its delay is 125 seconds.
C22_Witness ==
    /\ parse.pc = "backoff"
    /\ parse.sleep.site = "engine"
    /\ parse.sleep.limited
    /\ parse.sleep.n = 3
    /\ parse.sleep.time = 125 * (2 ^ MantissaBits)

\* C23: at every moment of an autopilot run the number of chapters inside the
\* LLM stage is at most the limit of the run, and the limit is the concurrency
\* of a request of the client clamped into 1..10.
C23_StageWithinConcurrency ==
    \A p \in Projects :
        run[p].kind = "autopilot" =>
            /\ Cardinality({i \in Chapters :
                              wk[p][i].pc \in {"stage", "seg_top", "try_top", "llm_call",
                                               "seg_sleep", "persist", "llm_exit"}})
                  <= run[p].conc
            /\ run[p].conc \in MinConcurrency .. MaxConcurrency
            /\ \E req \in env.reqs : run[p].conc = Clamp(req.concurrency)

\* A request with concurrency 0 runs with limit 1: one chapter is inside the
\* LLM stage and another waits for the semaphore.
C23_Witness ==
    \E p \in Projects :
        /\ run[p].kind = "autopilot"
        /\ \A req \in env.reqs : req.concurrency = 0
        /\ run[p].conc = 1
        /\ \E i, j \in Chapters : wk[p][i].pc = "llm_call" /\ wk[p][j].pc = "sem_wait"

\* No value occurs twice in the sequence.
NoDup(seq) == \A j, k \in 1..Len(seq) : seq[j] = seq[k] => j = k

\* C24: in an autopilot run, whatever pauses, resumes and suspensions of the
\* voice-match gate occur, the LLM stage of a submitted chapter is entered at
\* most once, the chapter is put on the queue at most once and its TTS stage is
\* entered at most once; at most one TTS stage has been entered and has not
\* returned, and it is the one the consumer is in.
C24_NoChapterProcessedTwice ==
    \A p \in Projects :
        run[p].kind = "autopilot" =>
            LET h == hist[p]
                open == Len(h.tts) - Len(h.tts_end)
            IN /\ NoDup(h.began) /\ NoDup(h.put) /\ NoDup(h.tts)
               /\ \A k \in 1..Len(h.tts) : \E j \in 1..Len(h.put) : h.put[j] = h.tts[k]
               /\ \A k \in 1..Len(h.put) : h.put[k] \in 1..run[p].n
               /\ open \in {0, 1}
               /\ open = 1 <=> cons[p].pc \in {"line_top", "synth"}
               /\ open = 1 => cons[p].ch = h.tts[Len(h.tts)]

\* The gate of a chapter parked for a voice, the client resumed the run, and
\* the TTS stage of that chapter has been entered and has returned.
C24_Witness ==
    \E p \in Projects : \E i \in Chapters :
        /\ run[p].kind = "autopilot"
        /\ i \in hist[p].needed
        /\ \E k \in 1..Len(hist[p].tts_end) : hist[p].tts_end[k] = i
        /\ Len(hist[p].began) = 2

\* The workers of a project that are inside the voice-match gate section: from
\* the acquisition of voice_match_lock to its release, the matching call and
\* the wait for a manual assignment included.
InGate(p) == {i \in Chapters : wk[p][i].pc \in {"gate", "match_call", "gate_wait", "gate_exit"}}

\* C25: in a run at most one gate evaluation is in progress at any time, also
\* while it is parked waiting for a manual assignment, and it is the one of the
\* worker holding voice_match_lock; so at most one matching call is out.
C25_OneGateEvaluation ==
    \A p \in Projects :
        /\ Cardinality(InGate(p)) <= 1
        /\ \A i \in InGate(p) : run[p].lockHeld = i
        /\ Cardinality({i \in Chapters : wk[p][i].pc = "match_call"}) <= 1

\* A gate evaluation is parked waiting for a voice, or its matching call is
\* out, while another worker of the run waits for the lock.
C25_Witness ==
    \E p \in Projects : \E i, j \in Chapters :
        /\ wk[p][i].pc = "gate_wait"
        /\ wk[p][j].pc = "lock_wait"

C25_WitnessCall ==
    \E p \in Projects : \E i, j \in Chapters :
        /\ wk[p][i].pc = "match_call"
        /\ wk[p][j].pc = "lock_wait"

\* C26: the chapters-since-last-match counter is reset only by the exit of a
\* gate evaluation that was called with a counter value that had reached the
\* interval, never by one entered only because manual assignment is on; and the
\* reset wipes no success counted after the evaluation began (the counter still
\* has the value the gate was evaluated with). Any other exit leaves the counter.
C26_ResetOnlyByDueEvaluation ==
    [][\A p \in Projects : \A i \in Chapters :
         wk[p][i].pc = "gate_exit" /\ wk'[p][i].pc = "sleep" =>
             LET seen == hist[p].seen[i] IN
             IF run'[p].csm # run[p].csm
             THEN /\ run'[p].csm = 0
                  /\ seen >= run[p].interval
                  /\ run[p].csm = seen
             ELSE TRUE]_vars

\* The first half alone: the evaluation that resets was called with a counter
\* that had reached the interval.
C26_ResetByDue ==
    [][\A p \in Projects : \A i \in Chapters :
         wk[p][i].pc = "gate_exit" /\ wk'[p][i].pc = "sleep" /\ run'[p].csm # run[p].csm
             => hist[p].seen[i] >= run[p].interval]_vars

\* The second half alone: an evaluation that was due wipes no later success.
C26_NoSuccessLost ==
    [][\A p \in Projects : \A i \in Chapters :
         /\ wk[p][i].pc = "gate_exit" /\ wk'[p][i].pc = "sleep"
         /\ run'[p].csm # run[p].csm /\ hist[p].seen[i] >= run[p].interval
         => run[p].csm = hist[p].seen[i]]_vars

\* The roles of chapter i that the gate of worker i detected without a voice and
\* that have none in voice table v.
StillUnbound(p, i, v) ==
    {ro \in wk[p][i].unb : /\ v[ro] = 0
                           /\ \E k \in 1..Len(lines[p][i]) : lines[p][i][k].role = ro}

\* C27: in automatic mode, when the matching attempt of a gate that fired for a
\* chapter returns (with an answer or with a failure) and a role detected for
\* the chapter is still without a voice, the gate emits the voice-needed event,
\* sets pause, clears resume and parks until resume, or leaves at once when the
\* run is already cancelled.
C27_UnmatchedRolePauses ==
    [][\A p \in Projects : \A i \in Chapters :
         /\ wk[p][i].pc = "match_call" /\ wk'[p][i].pc # "match_call"
         /\ StillUnbound(p, i, voice'[p]) # {}
         => /\ i \in hist'[p].needed
            /\ run'[p].pause /\ ~run'[p].resume
            /\ IF run[p].cancel THEN wk'[p][i].wr = "false" ELSE wk'[p][i].pc = "gate_wait"]_vars

\* The same where the matching call never fails: the answer left the role out.
C27_AnswerLeavesRolePauses ==
    [][\A p \in Projects : \A i \in Chapters :
         /\ wk[p][i].pc = "match_call" /\ wk'[p][i].pc # "match_call"
         /\ StillUnbound(p, i, voice'[p]) # {}
         /\ env.match = {FALSE}
         => /\ i \in hist'[p].needed
            /\ run'[p].pause /\ ~run'[p].resume
            /\ IF run[p].cancel THEN wk'[p][i].wr = "false" ELSE wk'[p][i].pc = "gate_wait"]_vars

\* A matching call that did not fail left a detected role without a voice and
\* the gate is parked for it.
C27_AnswerWitness ==
    \E p \in Projects : \E i \in Chapters :
        /\ env.match = {FALSE} /\ ~run[p].manual
        /\ wk[p][i].pc = "gate_wait" /\ i \in hist[p].fired /\ i \in hist[p].needed

\* Chapter ch of project p has a line whose role has no voice.
HasUnboundRole(p, ch) ==
    \E k \in 1..Len(lines[p][ch]) : voice[p][lines[p][ch][k].role] = 0

\* The consumer of p takes the head of the queue in this step.
Dequeues(p) ==
    /\ cons[p].pc \in {"top", "get"}
    /\ run[p].queue # <<>>
    /\ run'[p].queue = Tail(run[p].queue)

\* What C28 says of every dequeued item but the last check: a failed chapter
\* only increments tts_done and never enters the TTS stage; a chapter tagged as
\* parsed goes to the pause check and from there to the voice check.
TaggedItemPath(p) ==
    /\ Dequeues(p) /\ Head(run[p].queue) # Sentinel /\ ~Head(run[p].queue).ok
       => /\ cons'[p].pc = "top"
          /\ run'[p].tts_done = run[p].tts_done + 1
          /\ hist'[p].tts = hist[p].tts
    /\ Dequeues(p) /\ Head(run[p].queue) # Sentinel /\ Head(run[p].queue).ok
       => /\ cons'[p].pc \in {"wr_wait", "pre_tts"}
          /\ cons'[p].ch = Head(run[p].queue).ch
    /\ cons[p].pc = "wr_wait" /\ cons'[p].pc # "wr_wait"
       => cons'[p].pc = "pre_tts" /\ cons'[p].ch = cons[p].ch

\* C28 as stated: in a run that is not cancelled every dequeued chapter tagged
\* as parsed enters the TTS stage, and no chapter tagged as failed does.
C28_EveryParsedChapterRuns ==
    [][\A p \in Projects :
         run[p].kind = "autopilot" /\ ~run[p].cancel =>
             /\ TaggedItemPath(p)
             /\ cons[p].pc = "pre_tts" /\ cons'[p].pc # "pre_tts"
                => /\ cons'[p].pc = "line_top"
                   /\ hist'[p].tts = Append(hist[p].tts, cons[p].ch)]_vars

\* C28 amended: in a run that is not cancelled a dequeued chapter tagged as
\* parsed enters the TTS stage when, after the pause check, every role of its
\* lines has a voice; when a role has none the chapter is skipped and only
\* tts_done is incremented. No chapter tagged as failed enters the stage.
C28_ParsedAndBoundChapterRuns ==
    [][\A p \in Projects :
         run[p].kind = "autopilot" /\ ~run[p].cancel =>
             /\ TaggedItemPath(p)
             /\ cons[p].pc = "pre_tts" /\ cons'[p].pc # "pre_tts"
                => IF HasUnboundRole(p, cons[p].ch)
                   THEN /\ cons'[p].pc = "top"
                        /\ run'[p].tts_done = run[p].tts_done + 1
                        /\ hist'[p].tts = hist[p].tts
                   ELSE /\ cons'[p].pc = "line_top"
                        /\ hist'[p].tts = Append(hist[p].tts, cons[p].ch)]_vars

\* A run that was not cancelled has ended; one chapter tagged as parsed went
\* through its TTS stage and another one, also tagged as parsed, was skipped.
C28_Witness ==
    \E p \in Projects : \E i, j \in Chapters :
        /\ run[p].kind = "autopilot" /\ ~run[p].cancel /\ run[p].summary = "completed"
        /\ wk[p][i].success /\ wk[p][j].success
        /\ \E k \in 1..Len(hist[p].tts_end) : hist[p].tts_end[k] = i
        /\ \E k \in 1..Len(hist[p].put) : hist[p].put[k] = j
        /\ \A k \in 1..Len(hist[p].tts) : hist[p].tts[k] # j

\* The consumer of p hands a line to the synthesis only if its role has a voice.
SynthesizedLineHasVoice(p) ==
    cons[p].pc = "line_top" /\ cons'[p].pc = "synth"
        => voice[p][lines[p][cons[p].ch][Head(cons[p].todo)].role] # 0

\* C29 as stated: the TTS stage never synthesizes a line whose role has no
\* voice, and the consumer never starts the TTS stage of a chapter that had a
\* role without a voice when it was taken from the queue.
C29_NoStageIfUnboundAtDequeue ==
    [][\A p \in Projects :
         /\ SynthesizedLineHasVoice(p)
         /\ cons[p].pc = "pre_tts" /\ cons'[p].pc = "line_top"
            => cons[p].ch \notin hist[p].deq]_vars

\* C29 amended: the TTS stage never synthesizes a line whose role has no voice,
\* and the consumer never starts the TTS stage of a chapter that has a role
\* without a voice when the stage is started, after the consumer's pause check.
C29_NoStageIfUnboundAtStart ==
    [][\A p \in Projects :
         /\ SynthesizedLineHasVoice(p)
         /\ cons[p].pc = "pre_tts" /\ cons'[p].pc = "line_top"
            => ~HasUnboundRole(p, cons[p].ch)]_vars

\* A chapter taken from the queue with a role without a voice waited at the
\* pause check, the role was bound meanwhile, and a line of it is synthesized.
C29_Witness ==
    \E p \in Projects :
        /\ cons[p].pc = "synth"
        /\ cons[p].ch \in hist[p].deq

\* The line loop of the TTS stage meets a line whose role has lost its voice.
C29_WitnessLine ==
    \E p \in Projects :
        /\ cons[p].pc = "line_top" /\ cons[p].todo # <<>>
        /\ running = ConsT(p)
        /\ voice[p][lines[p][cons[p].ch][Head(cons[p].todo)].role] = 0

\* C30: when a segment of a chapter has failed (the segment loop is left with
\* parse_success false), the stage ends with the chapter marked failed and
\* writes nothing: the lines parsed from the earlier segments are not persisted
\* and the lines the chapter already had are neither changed nor deleted.
C30_FailedSegmentCommitsNothing ==
    [][\A p \in Projects : \A i \in Chapters :
         wk[p][i].pc = "persist" /\ ~wk[p][i].psuccess
         => /\ lines'[p][i] = lines[p][i]
            /\ wk'[p][i].pc # "persist"
               => wk'[p][i].pc = "llm_exit" /\ wk'[p][i].status = "error"]_vars

\* The second segment of a chapter failed after the first was parsed, in a run
\* that found lines an earlier run had persisted; the stage has ended with the
\* chapter marked failed and those lines still there.
C30_Witness ==
    \E p \in Projects : \E i \in Chapters :
        /\ wk[p][i].pc = "llm_exit" /\ wk[p][i].status = "error"
        /\ ~wk[p][i].psuccess
        /\ wk[p][i].seg = 2 /\ wk[p][i].acc # <<>>
        /\ lines[p][i] # <<>>

\* The pcs of a worker inside the segment loop of the LLM stage.
InSegmentLoop == {"seg_top", "try_top", "llm_call", "seg_sleep"}

\* C31: a segment is attempted at most MAX_SEG_RETRIES times; an attempt is
\* retried, after the backoff sleep, only when attempts remain and the failure
\* was rate-limited (where the LLM never answers rate-limited no segment gets a
\* second attempt); a failure that is not retried leaves the loop at once with
\* the chapter failed, and so does the last allowed attempt; the segments are
\* attempted one after the other in source order, the next one only after the
\* one before was parsed. (A batch run's watcher may cancel the task instead.)
C31_SegmentRetryPolicy ==
    [][\A p \in Projects : \A i \in Chapters :
         LET w == wk[p][i]  v == wk'[p][i] IN
         /\ w.pc \in InSegmentLoop => w.retry < MAX_SEG_RETRIES /\ w.seg \in 1..w.nsegs /\ w.psuccess
         /\ "rate_limited" \notin env.llm /\ w.pc \in InSegmentLoop => w.retry = 0
         /\ w.pc = "llm_call" /\ v.pc = "seg_sleep" => w.retry < MAX_SEG_RETRIES - 1
         /\ w.pc = "seg_sleep" /\ v.pc # "seg_sleep"
            => \/ v.pc = "try_top" /\ v.retry = w.retry + 1 /\ v.seg = w.seg
               \/ v.pc = "done" /\ run[p].cancel
         /\ w.pc = "llm_call" /\ v.pc \notin {"llm_call", "seg_sleep"}
            => \/ v.pc = "seg_top" /\ v.seg = w.seg + 1 /\ v.psuccess
               \/ v.pc = "persist" /\ v.seg = w.seg
                  /\ (v.psuccess => w.seg = w.nsegs)
               \/ v.pc = "done" /\ run[p].cancel
         /\ w.pc \in InSegmentLoop /\ v.pc \in InSegmentLoop => v.seg \in {w.seg, w.seg + 1}]_vars

\* The third attempt of a segment has failed and the chapter is marked failed.
C31_Witness ==
    \E p \in Projects : \E i \in Chapters :
        /\ wk[p][i].pc = "llm_exit" /\ wk[p][i].status = "error"
        /\ wk[p][i].retry = MAX_SEG_RETRIES - 1 /\ ~wk[p][i].psuccess

\* The TTS stage of the consumer of p returns in this step.
StageReturns(p) == cons[p].pc = "line_top" /\ cons'[p].pc \notin {"line_top", "synth"}

\* No line of chapter ch of project p is marked failed.
NoLineFailed(p, ch) == \A k \in 1..Len(lines[p][ch]) : lines[p][ch][k].status # "failed"

\* What C32 says of the lines and of the consumer: the result of a synthesis
\* changes the status of that line only, to done or failed, and the stage goes
\* on with the lines after it; when the stage returns, whatever its flag, the
\* consumer counts the chapter and is back at the top of its loop.
LineFailureIsolated(p) ==
    /\ cons[p].pc = "synth" /\ cons'[p].pc # "synth"
       => LET ch == cons[p].ch  k == Head(cons[p].todo) IN
          /\ cons'[p].pc = "line_top" /\ cons'[p].ch = ch /\ cons'[p].todo = Tail(cons[p].todo)
          /\ lines'[p][ch][k].status \in {"done", "failed"}
          /\ \A j \in 1..Len(lines[p][ch]) : j # k => lines'[p][ch][j] = lines[p][ch][j]
          /\ \A c \in Chapters : c # ch => lines'[p][c] = lines[p][c]
    /\ StageReturns(p)
       => /\ cons'[p].pc = "top"
          /\ run'[p].tts_done = run[p].tts_done + 1
          /\ Len(hist'[p].tts_ok) = Len(hist[p].tts_ok) + 1

\* C32 as stated: line failures are isolated, and the flag the stage returns is
\* true exactly when no line of the chapter failed.
C32_FlagIsNoLineFailed ==
    [][\A p \in Projects :
         /\ LineFailureIsolated(p)
         /\ StageReturns(p)
            => (hist'[p].tts_ok[Len(hist'[p].tts_ok)] <=> NoLineFailed(p, cons[p].ch))]_vars

\* C32 amended: line failures are isolated, and the flag the stage returns is
\* true exactly when no line of the chapter failed and the stage went through
\* all its lines; a stage that cancel ends before a line returns false.
C32_FlagIsNoLineFailedAndNotCut ==
    [][\A p \in Projects :
         /\ LineFailureIsolated(p)
         /\ StageReturns(p)
            => (hist'[p].tts_ok[Len(hist'[p].tts_ok)]
                  <=> NoLineFailed(p, cons[p].ch) /\ cons[p].todo = <<>>)]_vars

\* The first line of a chapter failed and the second was synthesized; the stage
\* returned false and the stage of the next chapter has returned true.
C32_Witness ==
    \E p \in Projects : \E i \in Chapters :
        /\ hist[p].tts_end = <<i, 3 - i>> /\ hist[p].tts_ok = <<FALSE, TRUE>>
        /\ Len(lines[p][i]) = 2
        /\ lines[p][i][1].status = "failed" /\ lines[p][i][2].status = "done"

\* C33: when the line loop of the TTS stage finds cancel set before a line, the
\* stage returns in that step: no line status changes, so that line and the
\* lines after it keep the status they had, and no synthesis call is started
\* while cancel is set.
C33_CancelLeavesRemainingLines ==
    [][\A p \in Projects :
         /\ cons[p].pc = "line_top" /\ cons[p].todo # <<>> /\ run[p].cancel
            /\ cons'[p] # cons[p]
            => /\ cons'[p].pc = "top"
               /\ lines'[p] = lines[p]
               /\ hist'[p].tts_end = Append(hist[p].tts_end, cons[p].ch)
         /\ cons[p].pc # "synth" /\ cons'[p].pc = "synth" => ~run[p].cancel]_vars

\* Cancel arrived while the first line of a chapter was synthesized: the stage
\* has returned, the first line is done and the second is still pending.
C33_Witness ==
    \E p \in Projects : \E i \in Chapters :
        /\ run[p].cancel /\ cons[p].pc \in {"top", "done"}
        /\ hist[p].tts_end = <<i>> /\ Len(lines[p][i]) = 2
        /\ lines[p][i][1].status = "done" /\ lines[p][i][2].status = "pending"

\* ---------------------------------------------------------------- C34
\* The main task of an autopilot run has ended in the step.
MainTaskEnds(p) ==
    run[p].kind = "autopilot" /\ run[p].mpc = "gather" /\ run'[p].mpc # "gather"

\* C34: a failure raised while a chapter is handled by the LLM stage, the
\* voice-match gate or the consumer's check before the TTS stage never ends the
\* run early: the main task ends only when every worker and the consumer have
\* finished, it ends with the summary event, and the run leaves the registry
\* only after that.
C34_FailureNeverEndsRun ==
    [][\A p \in Projects :
         /\ MainTaskEnds(p) =>
              /\ \A i \in Chapters : wk[p][i].pc \in {NoWorker.pc, "done"}
              /\ cons[p].pc = "done"
              /\ run'[p].summary # "none"
         /\ (tasks[p] # 0 /\ tasks'[p] = 0) => run[p].summary # "none"]_vars

\* ---------------------------------------------------------------- C35
\* The repair call failed: it raised, or its answer was empty.
RepairFailed(fix) == fix.raised \/ fix.data = <<>>

\* The violations the validation of the returned parse reported.
Reported ==
    IF parse.emotion_names = <<>> \/ parse.strength_names = <<>> THEN <<>>
    ELSE find_invalid_emotions(parse.parsed_data, NameSet(parse.emotion_names),
                               NameSet(parse.strength_names))

\* The lines the parse returned are those a repair call with that outcome gives.
ReturnedUnder(fix) ==
    parse.line_dtos = sanitize_emotions(
                         RepairEmotions(parse.parsed_data, parse.emotion_names,
                                        parse.strength_names, fix),
                         parse.emotion_names, parse.strength_names)

\* C35: a failure of the repair call never fails the segment: the parse
\* returns success with all the lines of the answer, and every field a reported
\* violation had outside its vocabulary holds the default.
C35_RepairFailureDefaults ==
    (parse.pc \in {"parsed", "written"} /\ Reported # <<>>) =>
        \A fix \in FixResults :
            (RepairFailed(fix) /\ ReturnedUnder(fix)) =>
                /\ Len(parse.line_dtos) = Len(parse.parsed_data)
                /\ \A j \in 1 .. Len(Reported) :
                      LET item == Reported[j]
                          line == parse.line_dtos[item.index + 1]
                      IN /\ item.emotion_name \notin NameSet(parse.emotion_names)
                            => line.emotion_name = default_emotion
                         /\ item.strength_name \notin NameSet(parse.strength_names)
                            => line.strength_name = default_strength

\* A parse returned after a repair call that failed: the line came with a
\* seeded emotion behind a blank, which the validation reports and the fallback
\* replaces by the default.
C35_Witness ==
    /\ parse.pc = "parsed"
    /\ Reported # <<>>
    /\ parse.parsed_data[1].role_name # Narrator
    /\ parse.parsed_data[1].emotion_name = <<" ", "h">>
    /\ <<"h">> \in NameSet(parse.emotion_names)
    /\ parse.line_dtos[1].emotion_name = default_emotion
    /\ \E fix \in FixResults : RepairFailed(fix) /\ ReturnedUnder(fix)

\* ---------------------------------------------------------------- C36
\* C36: in every state of an autopilot run tts_done <= llm_done <= total, every
\* chapter on the queue is one of the submitted chapters, and no more chapters
\* were put on the queue than were counted in llm_done.
C36_CountersAndQueue ==
    \A p \in Projects :
        run[p].kind = "autopilot" =>
            /\ run[p].tts_done <= run[p].llm_done
            /\ run[p].llm_done <= run[p].n
            /\ \A k \in 1 .. Len(run[p].queue) :
                  run[p].queue[k] # Sentinel => run[p].queue[k].ch \in 1 .. run[p].n
            /\ Len(hist[p].put) <= run[p].llm_done

\* Two chapters are counted, one is consumed and the other waits on the queue.
C36_Witness ==
    \E p \in Projects :
        /\ run[p].kind = "autopilot"
        /\ run[p].n = 2
        /\ run[p].llm_done = 2
        /\ run[p].tts_done = 1
        /\ run[p].queue # <<>>
        /\ Head(run[p].queue) # Sentinel

\* ---------------------------------------------------------------- C37
\* The workers that are inside _autopilot_llm_single_chapter.
InLlmStage ==
    {<<p, i>> \in Projects \X Chapters :
        /\ run[p].kind = "autopilot"
        /\ wk[p][i].pc \in InSegmentLoop \cup {"stage", "persist", "llm_exit"}}

\* C37: whenever no autopilot LLM stage invocation is in progress, in particular
\* after a run has ended, manager.broadcast is the original function, also when
\* several chapters are parsed side by side and finish in another order than
\* they started.
C37_BroadcastRestored == InLlmStage = {} => broadcast = RealBroadcast

MatchReturns(p, i) == wk[p][i].pc = "match_call" /\ wk'[p][i].pc # "match_call"

\* C39: automatic voice matching changes the binding only of roles that were
\* unbound when the match started, whatever mapping the LLM returns, and binds
\* a role only to a voice of the project's voice set.
C39_OnlyUnboundRolesChange ==
    [][\A p \in Projects, i \in Chapters :
          MatchReturns(p, i) =>
              \A ro \in Roles :
                 /\ ro \notin wk[p][i].unb => voice'[p][ro] = voice[p][ro]
                 /\ voice'[p][ro] # voice[p][ro] => voice'[p][ro] \in env.voices]_vars

\* The half of C39 about the voice set: the matching call binds a role only to
\* a voice the provider of the project has.
C39_BoundToKnownVoice ==
    [][\A p \in Projects, i \in Chapters :
          MatchReturns(p, i) =>
              \A ro \in Roles :
                 voice'[p][ro] # voice[p][ro] => voice'[p][ro] \in env.voices]_vars

\* ---------------------------------------------------------------- C40
\* C40: the repair step changes only fields that were invalid: an emotion or a
\* strength that was in its vocabulary before the repair call is the one the
\* parse returns, for a line that was not reported and for the valid field of
\* a reported line, whatever indices and values the repair answer holds.
C40_ValidFieldsKept ==
    parse.pc \in {"parsed", "written"} =>
        \A k \in 1 .. Len(parse.parsed_data) :
            /\ parse.parsed_data[k].emotion_name \in NameSet(parse.emotion_names)
               => parse.line_dtos[k].emotion_name = parse.parsed_data[k].emotion_name
            /\ parse.parsed_data[k].strength_name \in NameSet(parse.strength_names)
               => parse.line_dtos[k].strength_name = parse.parsed_data[k].strength_name

====
